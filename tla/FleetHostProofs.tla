--------------------------- MODULE FleetHostProofs ---------------------------
(* One host over its lives, for any number of agents, slots, lives and         *)
(* processes: what is on disk and what runs stay in step, whatever the steps   *)
(* between which the supervisor is killed.                                     *)
EXTENDS FleetHost, TLAPS

Launching == launch # NoLaunch
Reaping == reaping # NoReap
Slotted == {"shares", "anchor", "claim", "spawn", "record", "failed"}
Fresh == /\ tenants = Nothing /\ observed = "none" /\ verdicts = NoVerdicts
         /\ reaping = NoReap /\ launched = 0 /\ launch = NoLaunch

(* How far the supervisor is, and what it can have in hand there.              *)
Course ==
  /\ phase \in {"down", "observe"} => Fresh
  /\ phase # "down" => life # 0
  /\ phase = "reconcile" => observed = "complete"
  /\ phase \in {"launch_all", "rollback", "loop"} => verdicts = NoVerdicts
  /\ Launching => phase \in {"launch_all", "loop"} /\ ~Reaping
  /\ Reaping => phase \in {"reconcile", "loop"}
  /\ Reaping /\ phase = "loop" => reaping.stage = "forget"

(* What a launch has made by the step it is at.                                *)
Making ==
  Launching =>
    /\ launch.by = "config" => launched < Len(Static)
    /\ launch.stage \in Slotted => live[launch.agent] # 0
    /\ launch.stage = "anchor" => keystore[launch.agent].shares # 0
    /\ launch.stage \in {"claim", "spawn"} => LoadsKeyset(launch.agent)
    /\ launch.stage = "record" => launch.pid # 0

HostInv == TypeOK /\ Course /\ Making

LEMMA HostInit == Init => HostInv
<1> SUFFICES ASSUME Init PROVE HostInv
  OBVIOUS
<1>1. Len(Static) \in Nat /\ {MaxTenants, MaxLives, MaxPid, MaxKey} \subseteq Nat
  BY FleetHostAssumption
<1>2. TypeOK
  BY <1>1 DEF Init, TypeOK, Nothing, NoVerdicts, NoKeyset, Keystore, Phases
<1>3. Course /\ Making
  BY DEF Init, Course, Making, Fresh, Launching, Reaping
<1> QED
  BY <1>2, <1>3 DEF HostInv

LEMMA LaunchTypes ==
  ASSUME TypeOK, Launching
  PROVE  /\ launch \in Launch /\ launch.agent \in Agents /\ launch.stage \in Stages
         /\ launch.pid \in Pid \cup {0}
BY DEF TypeOK, Launching, Launch

LEMMA GotoOK ==
  ASSUME TypeOK, Launching, NEW stage \in Stages, Goto(stage)
  PROVE  /\ launch' \in Launch /\ Launching' /\ launch'.stage = stage
         /\ launch'.agent = launch.agent /\ launch'.by = launch.by /\ launch'.pid = launch.pid
<1>1. launch \in Launch
  BY DEF TypeOK, Launching
<1>2. launch' = [launch EXCEPT !.stage = stage]
  BY DEF Goto
<1>3. /\ launch' \in Launch /\ launch'.stage = stage
      /\ launch'.agent = launch.agent /\ launch'.by = launch.by /\ launch'.pid = launch.pid
  BY <1>1, <1>2 DEF Launch
<1> QED
  BY <1>3, FleetHostAssumption DEF Launching

LEMMA BeginOK ==
  ASSUME NEW a \in Agents, NEW by \in {"config", "request", "takeover"}, Begin(a, by)
  PROVE  /\ launch' \in Launch /\ Launching' /\ launch'.stage = "allocate"
         /\ launch'.agent = a /\ launch'.by = by
<1>1. launch' = [agent |-> a, by |-> by, stage |-> "allocate", pid |-> 0]
  BY DEF Begin
<1>2. launch' \in Launch
  BY <1>1 DEF Launch, Stages
<1> QED
  BY <1>1, <1>2, FleetHostAssumption DEF Launching

LEMMA ReapGotoOK ==
  ASSUME TypeOK, NEW stage \in ReapStages, Reaping, reaping' = [reaping EXCEPT !.stage = stage]
  PROVE  /\ reaping' \in Reap /\ Reaping' /\ reaping'.stage = stage /\ reaping'.agent = reaping.agent
<1>1. reaping \in Reap
  BY DEF TypeOK, Reaping
<1>2. reaping' \in Reap /\ reaping'.stage = stage /\ reaping'.agent = reaping.agent
  BY <1>1 DEF Reap
<1> QED
  BY <1>2, FleetHostAssumption DEF Reaping

(* A launch that goes on to a step that asks nothing new of it.                *)
LEMMA MakingOn ==
  ASSUME HostInv, Launching, NEW stage \in Stages, Goto(stage),
         UNCHANGED <<procs, tenants, phase, observed, verdicts, reaping, launched, life, cut, spawned,
                     records>>,
         live' \in [Agents -> Cid \cup {0}], keystore' \in [Agents -> Keystore],
         pids' \in 0..MaxPid, keys' \in 0..MaxKey,
         stage \in Slotted => live'[launch.agent] # 0,
         stage = "anchor" => keystore'[launch.agent].shares # 0,
         stage \in {"claim", "spawn"} =>
           /\ keystore'[launch.agent].anchor # 0
           /\ keystore'[launch.agent].shares = keystore'[launch.agent].anchor,
         stage # "record"
  PROVE  HostInv'
<1>1. /\ launch' \in Launch /\ Launching' /\ launch'.stage = stage
      /\ launch'.agent = launch.agent /\ launch'.by = launch.by /\ launch'.pid = launch.pid
  BY GotoOK DEF HostInv
<1>2. TypeOK'
  BY <1>1 DEF HostInv, TypeOK
<1>3. Course'
  BY <1>1 DEF HostInv, Course, Fresh, Launching, Reaping
<1>4. Making'
  BY <1>1 DEF HostInv, Making, LoadsKeyset, Launching
<1> QED
  BY <1>2, <1>3, <1>4 DEF HostInv

LEMMA AllocateOK == ASSUME HostInv, Allocate PROVE HostInv'
<1> DEFINE a == launch.agent
<1>1. Launching /\ a \in Agents
  BY LaunchTypes DEF Allocate, At, Launching, HostInv
<1>2. UNCHANGED <<records, spawned, keystore, procs, tenants, phase, observed, verdicts, reaping,
                  launched, counters, cut>>
  BY DEF Allocate
<1>3. CASE Goto("refused") /\ UNCHANGED live
  BY <1>1, <1>2, <1>3, MakingOn DEF HostInv, TypeOK, counters, Stages, Slotted
<1>4. ASSUME NEW cid \in Cid, live' = [live EXCEPT ![a] = cid], Goto("shares") PROVE HostInv'
  <2>1. live' \in [Agents -> Cid \cup {0}] /\ live'[a] # 0
    BY <1>1, <1>4 DEF HostInv, TypeOK, Cid
  <2> QED
    BY <1>1, <1>2, <1>4, <2>1, MakingOn DEF HostInv, TypeOK, counters, Stages, Slotted
<1> QED
  BY <1>3, <1>4 DEF Allocate

LEMMA KeystoreOK ==
  ASSUME TypeOK, NEW a \in Agents, NEW file \in {"shares", "anchor"}, NEW k,
         k \in Key \cup {0} \/ (file = "anchor" /\ k = Torn),
         keystore' = [keystore EXCEPT ![a][file] = k]
  PROVE  /\ keystore' \in [Agents -> Keystore] /\ keystore'[a][file] = k
         /\ \A other \in {"shares", "anchor"} : other # file => keystore'[a][other] = keystore[a][other]
         /\ \A b \in Agents : b # a => keystore'[b] = keystore[b]
<1>1. keystore[a] \in Keystore
  BY DEF TypeOK
<1>2. [keystore[a] EXCEPT ![file] = k] \in Keystore /\ [keystore[a] EXCEPT ![file] = k][file] = k
       /\ \A other \in {"shares", "anchor"} : other # file =>
            [keystore[a] EXCEPT ![file] = k][other] = keystore[a][other]
  BY <1>1 DEF Keystore
<1>3. keystore' = [keystore EXCEPT ![a] = [keystore[a] EXCEPT ![file] = k]]
  BY DEF TypeOK
<1> DEFINE now == [keystore[a] EXCEPT ![file] = k]
<1> HIDE DEF now
<1> QED
  BY <1>2, <1>3 DEF TypeOK, now

LEMMA ProvisionOK == ASSUME HostInv, Provision PROVE HostInv'
<1> DEFINE a == launch.agent
<1>1. Launching /\ a \in Agents /\ live[a] # 0
  BY LaunchTypes DEF Provision, At, Launching, HostInv, Making, Slotted
<1>2. UNCHANGED <<live, records, spawned, procs, tenants, phase, observed, verdicts, reaping, launched,
                  life, pids, cut>>
  BY DEF Provision
<1>3. CASE UNCHANGED <<keystore, keys>>
  <2>1. \E stage \in {"claim", "failed"} : Goto(stage) /\ (stage = "claim" => LoadsKeyset(a))
    <3>1. CASE keystore[a].anchor # 0 /\ Goto(IF LoadsKeyset(a) THEN "claim" ELSE "failed")
      BY <3>1
    <3>2. CASE Goto("failed")
      BY <3>2
    <3>3. ~(keystore[a].anchor = 0 /\ keys < MaxKey /\ keys' = keys + 1)
      BY <1>3 DEF HostInv, TypeOK
    <3> QED
      BY <3>1, <3>2, <3>3 DEF Provision
  <2> QED
    BY <1>1, <1>2, <1>3, <2>1, MakingOn DEF HostInv, TypeOK, Stages, Slotted, LoadsKeyset
<1>4. CASE keys < MaxKey /\ keys' = keys + 1 /\ keystore' = [keystore EXCEPT ![a].shares = keys + 1]
            /\ Goto("anchor")
  <2>1. keys + 1 \in Key /\ keys' \in 0..MaxKey /\ keys + 1 # 0
    BY <1>4, FleetHostAssumption DEF HostInv, TypeOK, Key
  <2>2. keystore' \in [Agents -> Keystore] /\ keystore'[a].shares # 0
    BY <1>1, <1>4, <2>1, KeystoreOK DEF HostInv
  <2> QED
    BY <1>1, <1>2, <1>4, <2>1, <2>2, MakingOn DEF HostInv, TypeOK, Stages, Slotted
<1> QED
  BY <1>3, <1>4 DEF Provision

LEMMA SaveAnchorOK == ASSUME HostInv, SaveAnchor PROVE HostInv'
<1> DEFINE a == launch.agent  k == keystore[a].shares
<1>1. Launching /\ a \in Agents /\ live[a] # 0 /\ k \in Key \cup {0} /\ k # 0
  BY LaunchTypes DEF SaveAnchor, At, Launching, HostInv, Making, Slotted, TypeOK, Keystore
<1>2. UNCHANGED <<live, records, spawned, procs, tenants, phase, observed, verdicts, reaping, launched,
                  counters, cut>>
  BY DEF SaveAnchor
<1>3. CASE keystore' = [keystore EXCEPT ![a].anchor = k] /\ (Goto("claim") \/ Goto("failed"))
  <2>1. keystore' \in [Agents -> Keystore] /\ keystore'[a].shares = k /\ keystore'[a].anchor = k
    BY <1>1, <1>3, KeystoreOK DEF HostInv
  <2> QED
    BY <1>1, <1>2, <1>3, <2>1, MakingOn DEF HostInv, TypeOK, counters, Stages, Slotted
<1>4. CASE keystore' \in {keystore, [keystore EXCEPT ![a].anchor = Torn]} /\ Goto("failed")
  <2>1. keystore' \in [Agents -> Keystore]
    BY <1>1, <1>4, KeystoreOK DEF HostInv, TypeOK
  <2> QED
    BY <1>1, <1>2, <1>4, <2>1, MakingOn DEF HostInv, TypeOK, counters, Stages, Slotted
<1> QED
  BY <1>3, <1>4 DEF SaveAnchor

LEMMA ClaimOK == ASSUME HostInv, Claim PROVE HostInv'
<1> DEFINE a == launch.agent
<1>1. /\ Launching /\ a \in Agents /\ live[a] # 0 /\ LoadsKeyset(a)
      /\ Goto("spawn") \/ Goto("failed")
      /\ UNCHANGED <<disk, procs, tenants, phase, observed, verdicts, reaping, launched, counters, cut>>
  BY LaunchTypes DEF Claim, At, Launching, HostInv, Making, Slotted
<1> QED
  BY <1>1, MakingOn DEF HostInv, TypeOK, disk, counters, Stages, Slotted, LoadsKeyset

LEMMA GiveBackOK == ASSUME HostInv, GiveBack PROVE HostInv'
<1>1. /\ Launching /\ launch.agent \in Agents /\ Goto("refused")
      /\ live' = [live EXCEPT ![launch.agent] = 0]
      /\ UNCHANGED <<records, spawned, keystore, procs, tenants, phase, observed, verdicts, reaping,
                     launched, counters, cut>>
  BY LaunchTypes DEF GiveBack, At, Launching, HostInv
<1>2. live' \in [Agents -> Cid \cup {0}]
  BY <1>1 DEF HostInv, TypeOK
<1> QED
  BY <1>1, <1>2, MakingOn DEF HostInv, TypeOK, counters, Stages, Slotted

LEMMA SpawnOK == ASSUME HostInv, Spawn PROVE HostInv'
<1> DEFINE a == launch.agent  pid == pids + 1
           new == [pid |-> pid, agent |-> a, cid |-> live[a], key |-> keystore[a].anchor, life |-> life]
<1>1. /\ Launching /\ a \in Agents /\ live[a] # 0 /\ LoadsKeyset(a) /\ launch \in Launch
      /\ UNCHANGED <<disk, tenants, phase, observed, verdicts, reaping, launched, life, keys, cut>>
  BY LaunchTypes DEF Spawn, At, Launching, HostInv, Making, Slotted
<1>2. CASE Goto("failed") /\ UNCHANGED <<procs, pids>>
  BY <1>1, <1>2, MakingOn DEF HostInv, TypeOK, disk, Stages, Slotted
<1>3. CASE /\ pids < MaxPid /\ pids' = pid /\ procs' = procs \cup {new}
           /\ launch' = [launch EXCEPT !.stage = "record", !.pid = pid]
  <2>1. pid \in Pid /\ pid \in 0..MaxPid /\ pid # 0
    BY <1>3, FleetHostAssumption DEF HostInv, TypeOK, Pid
  <2>2. life \in 1..MaxLives
    BY <1>1, FleetHostAssumption DEF HostInv, TypeOK, Course
  <2>3. new \in Process
    BY <1>1, <2>1, <2>2 DEF HostInv, TypeOK, Process, LoadsKeyset, Keystore
  <2>4. /\ launch' \in Launch /\ launch'.stage = "record" /\ launch'.pid = pid
        /\ launch'.agent = a /\ launch'.by = launch.by
    <3> HIDE DEF pid, new
    <3> QED BY <1>1, <1>3, <2>1 DEF Launch, Stages
  <2>5. Launching'
    BY <2>4, FleetHostAssumption DEF Launching
  <2> HIDE DEF new, pid
  <2>6. TypeOK'
    BY <1>1, <1>3, <2>1, <2>3, <2>4 DEF HostInv, TypeOK, disk
  <2>7. Course'
    BY <1>1, <1>3, <2>4, <2>5 DEF HostInv, Course, Fresh, Launching, Reaping
  <2>8. Making'
    BY <1>1, <1>3, <2>1, <2>4, <2>5 DEF HostInv, Making, disk, Slotted, Launching
  <2> QED
    BY <2>6, <2>7, <2>8 DEF HostInv
<1> QED
  BY <1>2, <1>3 DEF Spawn

LEMMA RecordOK == ASSUME HostInv, Record PROVE HostInv'
<1> DEFINE a == launch.agent
<1>1. /\ Launching /\ a \in Agents /\ launch.pid \in Pid \cup {0} /\ launch \in Launch
      /\ phase \in {"launch_all", "loop"}
      /\ records' = [records EXCEPT ![a] = launch.pid] /\ tenants' = [tenants EXCEPT ![a] = launch.pid]
      /\ launched' = IF launch.by = "config" THEN launched + 1 ELSE launched
      /\ UNCHANGED <<live, spawned, keystore, procs, phase, observed, verdicts, reaping, counters, cut>>
  BY LaunchTypes DEF Record, At, Launching, HostInv, Course
<1>2. launched' \in 0..Len(Static)
  BY <1>1, FleetHostAssumption DEF HostInv, TypeOK, Making
<1>3. launch' = NoLaunch \/ (/\ launch' \in Launch /\ launch'.stage = "finalize" /\ launch'.by = "request"
                              /\ Launching' /\ launch'.agent = a)
  BY <1>1, GotoOK DEF Record, HostInv, Stages
<1>4. TypeOK'
  BY <1>1, <1>2, <1>3 DEF HostInv, TypeOK, counters
<1>5. Course'
  BY <1>1, <1>3 DEF HostInv, Course, Fresh, Launching, Reaping, counters
<1>6. Making'
  BY <1>1, <1>3 DEF HostInv, Making, Slotted, Launching
<1> QED
  BY <1>4, <1>5, <1>6 DEF HostInv

(* A launch that ends.                                                         *)
LEMMA LaunchEndsOK == ASSUME HostInv, Finalize \/ Refused PROVE HostInv'
<1>1. /\ Launching /\ launch.agent \in Agents /\ launch' = NoLaunch
      /\ phase \in {"launch_all", "loop"} /\ ~Reaping
      /\ spawned' = spawned \/ \E x \in {"launched", "none"} : spawned' = [spawned EXCEPT ![launch.agent] = x]
      /\ phase' \in {phase, "rollback"}
      /\ UNCHANGED <<live, records, keystore, procs, tenants, observed, verdicts, reaping, launched,
                     counters, cut>>
  BY LaunchTypes DEF Finalize, Refused, At, Launching, HostInv, Course
<1>2. TypeOK'
  BY <1>1 DEF HostInv, TypeOK, counters, Phases
<1>3. Course'
  BY <1>1 DEF HostInv, Course, Fresh, Launching, Reaping, counters
<1>4. Making'
  BY <1>1 DEF Making, Launching
<1> QED
  BY <1>2, <1>3, <1>4 DEF HostInv

-----------------------------------------------------------------------------
(* The supervisor comes and goes.                                              *)
LEMMA DownOK ==
  ASSUME HostInv, Down, procs' \subseteq procs, cut' \subseteq Agents, UNCHANGED <<disk, counters>>
  PROVE  HostInv'
<1>1. TypeOK'
  BY FleetHostAssumption DEF HostInv, TypeOK, Down, Nothing, NoVerdicts, Phases, disk, counters
<1>2. Course' /\ Making'
  BY DEF Down, Course, Fresh, Making, Launching, Reaping
<1> QED
  BY <1>1, <1>2 DEF HostInv

LEMMA ComesAndGoesOK == ASSUME HostInv, Die \/ Crash \/ Start \/ RolledBack PROVE HostInv'
<1>1. CASE Die
  <2>1. procs' \subseteq procs /\ UNCHANGED <<disk, memory, counters, cut>>
    BY <1>1 DEF Die
  <2> QED
    BY <2>1 DEF HostInv, TypeOK, Course, Fresh, Making, Launching, Reaping, LoadsKeyset, disk, memory,
                counters
<1>2. CASE Crash
  <2>1. Cut \subseteq Agents
    BY LaunchTypes DEF Cut, HostInv, Launching
  <2>2. cut' \subseteq Agents /\ procs' \subseteq procs
    BY <1>2, <2>1 DEF Crash, HostInv, TypeOK
  <2> QED
    BY <1>2, <2>2, DownOK DEF Crash
<1>3. CASE Start
  <2>1. life' \in 0..MaxLives /\ life' # 0
    BY <1>3, FleetHostAssumption DEF Start, HostInv, TypeOK
  <2>2. TypeOK'
    BY <1>3, <2>1 DEF Start, HostInv, TypeOK, disk, Phases
  <2>3. Course' /\ Making'
    BY <1>3, <2>1 DEF Start, HostInv, Course, Fresh, Making, Launching, Reaping
  <2> QED
    BY <2>2, <2>3 DEF HostInv
<1>4. CASE RolledBack
  <2>1. cut' \subseteq Agents /\ procs' \subseteq procs
    BY <1>4 DEF RolledBack, HostInv, TypeOK
  <2> QED
    BY <1>4, <2>1, DownOK DEF RolledBack
<1> QED
  BY <1>1, <1>2, <1>3, <1>4

(* The reconcile.                                                              *)
LEMMA ObserveOK == ASSUME HostInv, Observe PROVE HostInv'
<1>1. /\ phase = "observe" /\ Fresh /\ life # 0
      /\ UNCHANGED <<disk, procs, tenants, reaping, launched, launch, counters, cut>>
      /\ \/ observed' = "complete" /\ phase' = "reconcile"
         \/ observed' = "incomplete" /\ phase' = "launch_all" /\ UNCHANGED verdicts
      /\ verdicts' \in [Agents -> {"done", "re-adopt", "reap"}]
  BY DEF Observe, reconcile, decide_one, HostInv, Course, TypeOK
<1>2. TypeOK'
  BY <1>1 DEF HostInv, TypeOK, disk, counters, Phases
<1>3. Course' /\ Making'
  BY <1>1 DEF Course, Fresh, Making, Launching, Reaping, counters
<1> QED
  BY <1>2, <1>3 DEF HostInv

LEMMA VerdictOK == ASSUME HostInv, NEW a \in Agents, re_adopt(a) \/ reap_orphan(a) PROVE HostInv'
<1>1. /\ phase = "reconcile" /\ observed = "complete" /\ ~Launching /\ ~Reaping /\ life # 0
      /\ tenants' = tenants \/ tenants' = [tenants EXCEPT ![a] = records[a]]
      /\ verdicts' = [verdicts EXCEPT ![a] = "done"]
      /\ reaping' = NoReap \/ reaping' = [agent |-> a, stage |-> "kill"]
      /\ UNCHANGED <<disk, procs, phase, observed, launched, launch, counters, cut>>
  BY DEF re_adopt, reap_orphan, HostInv, Course, Reaping
<1>2. reaping' \in Reap \cup {NoReap}
  BY <1>1 DEF Reap, ReapStages
<1>3. TypeOK'
  BY <1>1, <1>2 DEF HostInv, TypeOK, disk, counters
<1>4. Course' /\ Making'
  BY <1>1 DEF Course, Making, Launching, Reaping, counters
<1> QED
  BY <1>3, <1>4 DEF HostInv

(* A reap that goes from step to step, or ends.                                *)
LEMMA ReapOn ==
  ASSUME HostInv, phase = "reconcile", Reaping,
         (\E stage \in ReapStages : reaping' = [reaping EXCEPT !.stage = stage]) \/ reaping' = reaping
           \/ reaping' = NoReap,
         live' \in [Agents -> Cid \cup {0}], records' \in [Agents -> Pid \cup {0}],
         spawned' \in [Agents -> {"none", "pending", "launched"}],
         keystore' \in [Agents -> Keystore], procs' \subseteq procs,
         UNCHANGED <<tenants, phase, observed, verdicts, launched, launch, counters, cut>>
  PROVE  HostInv'
<1>1. reaping' \in Reap \cup {NoReap}
  BY ReapGotoOK DEF HostInv, TypeOK
<1>2. TypeOK'
  BY <1>1 DEF HostInv, TypeOK, counters
<1>3. ~Launching
  BY DEF HostInv, Course
<1>4. Course' /\ Making'
  BY <1>3 DEF HostInv, Course, Making, Launching, Reaping, counters
<1> QED
  BY <1>2, <1>4 DEF HostInv

LEMMA ReapOK ==
  ASSUME HostInv, ReapKill \/ ReapRelease \/ ReapClean \/ ReapForget \/ ReapClear PROVE HostInv'
<1> DEFINE a == reaping.agent
<1>1. /\ phase = "reconcile" /\ Reaping /\ a \in Agents
      /\ UNCHANGED <<tenants, phase, observed, verdicts, launched, launch, counters, cut>>
  BY DEF ReapKill, ReapRelease, ReapClean, ReapForget, ReapClear, AtReap, Reaping, HostInv, TypeOK, Reap
<1>2. CASE ReapKill
  BY <1>1, <1>2, ReapOn DEF ReapKill, Others, ReapStages, disk, HostInv, TypeOK
<1>3. CASE ReapRelease
  BY <1>1, <1>3, ReapOn DEF ReapRelease, ReapStages, HostInv, TypeOK
<1>4. CASE ReapClean
  <2>1. keystore' \in [Agents -> Keystore]
    BY <1>1, <1>4, KeystoreOK DEF ReapClean, HostInv, TypeOK
  <2> QED
    BY <1>1, <1>4, <2>1, ReapOn DEF ReapClean, ReapStages, HostInv, TypeOK
<1>5. CASE ReapForget
  BY <1>1, <1>5, ReapOn DEF ReapForget, ReapStages, HostInv, TypeOK
<1>6. CASE ReapClear
  BY <1>1, <1>6, ReapOn DEF ReapClear, HostInv, TypeOK
<1> QED
  BY <1>2, <1>3, <1>4, <1>5, <1>6

LEMMA PhaseOK == ASSUME HostInv, Reconciled \/ LaunchedAll PROVE HostInv'
<1>1. /\ phase \in {"reconcile", "launch_all"} /\ phase' \in {"launch_all", "loop"}
      /\ verdicts = NoVerdicts /\ ~Reaping /\ ~Launching /\ life # 0
      /\ UNCHANGED <<disk, procs, tenants, observed, verdicts, reaping, launched, launch, counters, cut>>
  BY DEF Reconciled, LaunchedAll, HostInv, Course, Launching, Reaping
<1>2. TypeOK'
  BY <1>1 DEF HostInv, TypeOK, disk, counters, Phases
<1>3. Course' /\ Making'
  BY <1>1 DEF Course, Making, Launching, Reaping, counters
<1> QED
  BY <1>2, <1>3 DEF HostInv

(* A launch that begins.                                                       *)
LEMMA BeginsOK ==
  ASSUME HostInv, LaunchNext \/ \E a \in Agents : SpawnRequest(a) \/ TakeOver(a) PROVE HostInv'
<1>1. \E a \in Agents, by \in {"config", "request", "takeover"} :
        Begin(a, by) /\ (by = "config" => launched < Len(Static))
  <2>1. CASE LaunchNext
    <3>1. Static[launched + 1] \in Agents /\ launched < Len(Static)
      BY <2>1, FleetHostAssumption DEF LaunchNext, HostInv, TypeOK
    <3> QED
      BY <2>1, <3>1 DEF LaunchNext
  <2>2. CASE \E a \in Agents : SpawnRequest(a) \/ TakeOver(a)
    BY <2>2 DEF SpawnRequest, TakeOver
  <2> QED
    BY <2>1, <2>2
<1>2. /\ phase \in {"launch_all", "loop"} /\ ~Reaping /\ life # 0
      /\ UNCHANGED <<live, records, keystore, procs, tenants, phase, observed, verdicts, reaping,
                     launched, counters, cut>>
      /\ spawned' = spawned \/ \E a \in Agents : spawned' = [spawned EXCEPT ![a] = "pending"]
  BY DEF LaunchNext, SpawnRequest, TakeOver, Idle, HostInv, Course, Reaping, disk
<1>3. launch' \in Launch /\ Launching' /\ launch'.stage = "allocate"
       /\ (launch'.by = "config" => launched < Len(Static))
  BY <1>1, BeginOK
<1>4. TypeOK'
  BY <1>2, <1>3 DEF HostInv, TypeOK, counters
<1>5. Course'
  BY <1>2, <1>3 DEF HostInv, Course, Launching, Reaping, counters
<1>6. Making'
  BY <1>2, <1>3 DEF Making, Slotted, Launching
<1> QED
  BY <1>4, <1>5, <1>6 DEF HostInv

(* Tenants that end, or are ended.                                             *)
LEMMA EndsOK == ASSUME HostInv, KillAndReap \/ ReapDead \/ ForgetDead PROVE HostInv'
<1>1. /\ phase \in {"rollback", "loop"} /\ ~Launching /\ procs' \subseteq procs
      /\ UNCHANGED <<spawned, keystore, phase, observed, verdicts, launched, launch, counters, cut>>
      /\ phase = "rollback" => reaping' = reaping
  BY DEF KillAndReap, ReapDead, ForgetDead, Idle, Others, Launching, Reaping, HostInv, Course
<1>2. /\ tenants' \in [Agents -> Pid \cup {0}] /\ live' \in [Agents -> Cid \cup {0}]
      /\ records' \in [Agents -> Pid \cup {0}]
  BY DEF KillAndReap, ReapDead, ForgetDead, HostInv, TypeOK
<1>3. reaping' \in {reaping, NoReap} \/ \E a \in Agents : reaping' = [agent |-> a, stage |-> "forget"]
  BY DEF KillAndReap, ReapDead, ForgetDead, Tracked
<1>4. reaping' \in Reap \cup {NoReap}
  BY <1>3 DEF HostInv, TypeOK, Reap, ReapStages
<1>5. TypeOK'
  BY <1>1, <1>2, <1>4 DEF HostInv, TypeOK, counters
<1>6. Course' /\ Making'
  BY <1>1, <1>3 DEF HostInv, Course, Making, Launching, Reaping, counters
<1> QED
  BY <1>5, <1>6 DEF HostInv

LEMMA HostStep == HostInv /\ [Next]_vars => HostInv'
<1> SUFFICES ASSUME HostInv, [Next]_vars PROVE HostInv'
  OBVIOUS
<1>1. CASE UNCHANGED vars
  BY <1>1 DEF vars, disk, memory, counters, HostInv, TypeOK, Course, Fresh, Making, Launching, Reaping,
              LoadsKeyset
<1> QED
  BY <1>1, AllocateOK, ProvisionOK, SaveAnchorOK, ClaimOK, GiveBackOK, SpawnOK, RecordOK, LaunchEndsOK,
     ComesAndGoesOK, ObserveOK, VerdictOK, ReapOK, PhaseOK, BeginsOK, EndsOK DEF Next, LaunchStep

(* Slots, process ids and keysets stay within what the configuration allows,   *)
(* and every launch and reap is of an agent (fleet_supervisor.rs, fleet.rs).   *)
THEOREM HostTypesSafe == Spec => []TypeOK
<1>1. HostInv => TypeOK
  BY DEF HostInv
<1> QED
  BY <1>1, HostInit, HostStep, PTL DEF Spec

-----------------------------------------------------------------------------
(* Who may be ended unseen: what a supervisor tracks before it has seen all    *)
(* the leases it has started itself.                                           *)
FenceInv ==
  /\ \A p \in procs : p.pid <= pids /\ p.life <= life
  /\ At("record") => \A p \in procs : p.pid = launch.pid => p.life = life
  /\ observed # "complete" => \A p \in procs : tenants[p.agent] = p.pid => p.life = life

LEMMA ProcessTypes ==
  ASSUME TypeOK, NEW p \in procs
  PROVE  /\ p.pid \in Nat /\ p.pid \in Pid /\ p.pid # 0 /\ p.agent \in Agents /\ p.cid \in Cid /\ p.cid # 0
         /\ p.life \in Nat /\ p.key \in Key
BY FleetHostAssumption DEF TypeOK, Process, Pid, Cid

LEMMA FenceInit == Init => FenceInv
BY FleetHostAssumption DEF Init, FenceInv, At

(* A step that starts no process and tracks none in addition.                  *)
LEMMA FenceOn ==
  ASSUME TypeOK, FenceInv, procs' \subseteq procs, UNCHANGED <<pids, life>>,
         observed' \in {observed, "complete"} \/ tenants' = Nothing,
         observed' # "complete" => \A a \in Agents : tenants'[a] \in {tenants[a], 0},
         At("record")' => UNCHANGED launch
  PROVE  FenceInv'
<1>1. \A p \in procs : p.pid # 0 /\ p.agent \in Agents
  BY ProcessTypes
<1> QED
  BY <1>1 DEF FenceInv, At, Nothing

LEMMA FenceSpawn == ASSUME HostInv, FenceInv, Spawn PROVE FenceInv'
<1> DEFINE a == launch.agent  pid == pids + 1
           new == [pid |-> pid, agent |-> a, cid |-> live[a], key |-> keystore[a].anchor, life |-> life]
<1>1. /\ Launching /\ launch \in Launch /\ pids \in Nat /\ life \in Nat
      /\ \A p \in procs : p.pid \in Nat
      /\ UNCHANGED <<disk, tenants, phase, observed, verdicts, reaping, launched, life, keys, cut>>
  BY LaunchTypes, ProcessTypes, FleetHostAssumption DEF Spawn, At, Launching, HostInv, TypeOK
<1>2. CASE Goto("failed") /\ UNCHANGED <<procs, pids>>
  <2>1. ~At("record")'
    BY <1>1, <1>2, GotoOK DEF At, HostInv, Stages
  <2> QED
    BY <1>1, <1>2, <2>1, FenceOn DEF HostInv
<1>3. CASE /\ pids < MaxPid /\ pids' = pid /\ procs' = procs \cup {new}
           /\ launch' = [launch EXCEPT !.stage = "record", !.pid = pid]
  <2>1. new.pid = pid /\ new.life = life
    OBVIOUS
  <2>2. launch'.pid = pid
    BY <1>1, <1>3 DEF Launch
  <2> HIDE DEF new
  <2>3. \A p \in procs' : p = new \/ (p \in procs /\ p.pid <= pids /\ p.pid # pid)
    BY <1>1, <1>3 DEF FenceInv
  <2> QED
    BY <1>1, <1>3, <2>1, <2>2, <2>3 DEF FenceInv, At
<1> QED
  BY <1>2, <1>3 DEF Spawn

LEMMA FenceRecord == ASSUME HostInv, FenceInv, Record PROVE FenceInv'
<1> DEFINE a == launch.agent
<1>1. /\ a \in Agents /\ At("record") /\ tenants' = [tenants EXCEPT ![a] = launch.pid]
      /\ UNCHANGED <<procs, observed, pids, life>> /\ tenants \in [Agents -> Pid \cup {0}]
  BY LaunchTypes DEF Record, At, Launching, HostInv, counters, TypeOK
<1>2. ~At("record")'
  <2>1. launch' = NoLaunch \/ Goto("finalize")
    BY DEF Record
  <2> QED
    BY <1>1, <2>1, GotoOK DEF At, HostInv, Launching, Stages
<1>3. ASSUME NEW p \in procs, tenants'[p.agent] = p.pid, observed # "complete" PROVE p.life = life
  <2>1. p.agent \in Agents
    BY ProcessTypes DEF HostInv
  <2>2. CASE p.agent = a
    BY <1>1, <1>3, <2>2 DEF FenceInv
  <2>3. CASE p.agent # a
    BY <1>1, <1>3, <2>1, <2>3 DEF FenceInv
  <2> QED
    BY <2>2, <2>3
<1> QED
  BY <1>1, <1>2, <1>3 DEF FenceInv

LEMMA FenceStart == ASSUME HostInv, FenceInv, Start PROVE FenceInv'
<1>1. /\ tenants' = Nothing /\ life' = life + 1 /\ life \in Nat /\ UNCHANGED <<procs, pids, observed, launch>>
      /\ launch = NoLaunch
  BY FleetHostAssumption DEF Start, HostInv, TypeOK, Course, Fresh
<1>2. \A p \in procs : p.pid # 0 /\ p.agent \in Agents /\ p.life \in Nat
  BY ProcessTypes DEF HostInv
<1>3. \A p \in procs : p.life <= life'
  BY <1>1, <1>2 DEF FenceInv
<1> QED
  BY <1>1, <1>2, <1>3 DEF FenceInv, At, Nothing

(* The steps of a launch that are neither of these, and those that begin one.  *)
LEMMA FenceLaunch ==
  ASSUME HostInv, FenceInv,
         \/ Allocate \/ Provision \/ SaveAnchor \/ Claim \/ Finalize \/ GiveBack \/ Refused \/ LaunchNext
         \/ \E a \in Agents : SpawnRequest(a) \/ TakeOver(a)
  PROVE  FenceInv'
<1>1. ~At("record")'
  <2>1. CASE Allocate \/ Provision \/ SaveAnchor \/ Claim \/ Finalize \/ GiveBack \/ Refused
    <3>1. launch' = NoLaunch \/ (Launching /\ \E stage \in Stages \ {"record"} : Goto(stage))
      BY <2>1 DEF Allocate, Provision, SaveAnchor, Claim, Finalize, GiveBack, Refused, Stages, At, Launching
    <3> QED
      BY <3>1, GotoOK DEF At, HostInv
  <2>2. CASE LaunchNext \/ \E a \in Agents : SpawnRequest(a) \/ TakeOver(a)
    BY <2>2 DEF LaunchNext, SpawnRequest, TakeOver, Begin, At
  <2> QED
    BY <2>1, <2>2
<1>2. UNCHANGED <<procs, pids, life, observed, tenants>>
  BY DEF Allocate, Provision, SaveAnchor, Claim, Finalize, GiveBack, Refused, LaunchNext, SpawnRequest,
         TakeOver, counters, disk
<1> QED
  BY <1>1, <1>2, FenceOn DEF HostInv

LEMMA FenceRest ==
  ASSUME HostInv, FenceInv,
         \/ Die \/ Crash \/ RolledBack \/ Observe \/ Reconciled \/ LaunchedAll
         \/ \E a \in Agents : re_adopt(a) \/ reap_orphan(a)
         \/ ReapKill \/ ReapRelease \/ ReapClean \/ ReapForget \/ ReapClear
         \/ KillAndReap \/ ReapDead \/ ForgetDead
  PROVE  FenceInv'
<1>1. procs' \subseteq procs /\ UNCHANGED <<pids, life>>
  BY DEF Die, Crash, RolledBack, Observe, Reconciled, LaunchedAll, re_adopt, reap_orphan, ReapKill,
         ReapRelease, ReapClean, ReapForget, ReapClear, KillAndReap, ReapDead, ForgetDead, Others, counters
<1>2. launch' \in {launch, NoLaunch}
  BY DEF Die, Crash, RolledBack, Observe, Reconciled, LaunchedAll, re_adopt, reap_orphan, ReapKill,
         ReapRelease, ReapClean, ReapForget, ReapClear, KillAndReap, ReapDead, ForgetDead, Down, memory
<1>3. \/ UNCHANGED observed
      \/ observed' = "complete"
      \/ tenants' = Nothing
  BY DEF Die, Crash, RolledBack, Observe, Reconciled, LaunchedAll, re_adopt, reap_orphan, ReapKill,
         ReapRelease, ReapClean, ReapForget, ReapClear, KillAndReap, ReapDead, ForgetDead, Down, memory,
         HostInv, Course, Fresh
<1>4. ASSUME observed' # "complete", NEW a \in Agents PROVE tenants'[a] \in {tenants[a], 0}
  <2>1. ~ \E b \in Agents : re_adopt(b)
    BY <1>4 DEF re_adopt, HostInv, Course
  <2>2. \/ UNCHANGED tenants
        \/ tenants' = Nothing
        \/ \E b \in Agents : tenants' = [tenants EXCEPT ![b] = 0]
    BY <2>1 DEF Die, Crash, RolledBack, Observe, Reconciled, LaunchedAll, reap_orphan, ReapKill, ReapRelease,
                ReapClean, ReapForget, ReapClear, KillAndReap, ReapDead, ForgetDead, Down, memory, Tracked
  <2> QED
    BY <2>2 DEF Nothing, HostInv, TypeOK
<1> QED
  BY <1>1, <1>2, <1>3, <1>4, FenceOn DEF HostInv, At

LEMMA FenceStep == HostInv /\ FenceInv /\ [Next]_vars => FenceInv'
<1> SUFFICES ASSUME HostInv, FenceInv, [Next]_vars PROVE FenceInv'
  OBVIOUS
<1>1. CASE UNCHANGED vars
  BY <1>1 DEF vars, memory, counters, FenceInv, At
<1> QED
  BY <1>1, FenceSpawn, FenceRecord, FenceStart, FenceLaunch, FenceRest DEF Next, LaunchStep

(* A supervisor that could not see all the leases at its start ends no tenant  *)
(* of an earlier life, whatever it launches, rolls back or reaps after that    *)
(* (fleet_supervisor.rs reconcile's completeness gate, kill_and_reap_all).     *)
THEOREM FalseReapFenced == Spec => FalseReapFence
<1> DEFINE Spared ==
      \A p \in procs \ procs' :
        observed = "incomplete" /\ p.life < life => phase' = "down" \/ UNCHANGED <<disk, memory>>
<1>1. ASSUME HostInv, FenceInv, [Next]_vars PROVE [Spared]_vars
  <2> SUFFICES ASSUME NEW p \in procs, p \notin procs', observed = "incomplete", p.life < life
               PROVE  phase' = "down" \/ UNCHANGED <<disk, memory>>
    OBVIOUS
  <2>1. CASE Die
    BY <2>1 DEF Die
  <2>2. CASE Crash
    BY <2>2 DEF Crash, Down
  <2>3. CASE ReapKill
    BY <1>1, <2>3 DEF ReapKill, AtReap, HostInv, Course
  <2>4. CASE KillAndReap
    <3>1. PICK a \in Agents : procs' = Others(a, tenants[a])
      BY <2>4 DEF KillAndReap, Tracked
    <3>2. p.pid = tenants[p.agent]
      BY <3>1 DEF Others
    <3>3. p.life \in Nat /\ life \in Nat
      BY <1>1, ProcessTypes, FleetHostAssumption DEF HostInv, TypeOK
    <3> QED
      BY <1>1, <3>2, <3>3 DEF FenceInv
  <2>5. CASE ~(Die \/ Crash \/ ReapKill \/ KillAndReap)
    <3>1. procs \subseteq procs'
      BY <1>1, <2>5 DEF Next, LaunchStep, Start, RolledBack, Observe, Reconciled, LaunchedAll, re_adopt,
           reap_orphan, ReapRelease, ReapClean, ReapForget, ReapClear, ReapDead, ForgetDead, Allocate,
           Provision, SaveAnchor, Claim, Spawn, Record, Finalize, GiveBack, Refused, LaunchNext,
           SpawnRequest, TakeOver, vars
    <3> QED
      BY <3>1
  <2> QED
    BY <2>1, <2>2, <2>3, <2>4, <2>5
<1> QED
  BY <1>1, HostInit, HostStep, FenceInit, FenceStep, PTL DEF Spec, FalseReapFence, Spared

-----------------------------------------------------------------------------
(* Who lives where.  The process id an agent should have is the one recorded,  *)
(* or the one its launch has just started and will record.                     *)
Held(a) == IF At("record") /\ launch.agent = a THEN launch.pid ELSE records[a]
Vacant(a) == a \in cut \/ \A p \in procs : p.agent # a
EmptyStages == {"shares", "anchor", "claim", "spawn", "failed"}

OnePid == \A p, q \in procs : p.pid = q.pid => p = q
Apart == \A a, b \in Agents : live[a] = live[b] /\ live[a] # 0 => a = b
Housed ==
  \A p \in procs : p.agent \notin cut =>
    /\ p.cid = live[p.agent]
    /\ p.pid = Held(p.agent)
    /\ keystore[p.agent] = [shares |-> p.key, anchor |-> p.key]
EmptyHands ==
  /\ Launching /\ launch.stage \in EmptyStages => Vacant(launch.agent)
  /\ Reaping /\ reaping.stage # "kill" => Vacant(reaping.agent)
TrackedIsRecorded ==
  \A a \in Tracked :
    /\ tenants[a] = records[a]
    /\ phase = "reconcile" => verdicts[a] = "done"
    /\ Reaping => reaping.agent # a

HouseInv == OnePid /\ Apart /\ Housed /\ EmptyHands /\ TrackedIsRecorded

(* No process id is used twice, so a killed process was the one meant.         *)
LEMMA OnePidStep == ASSUME HostInv, FenceInv, OnePid, [Next]_vars PROVE OnePid'
<1>1. CASE procs' \subseteq procs
  BY <1>1 DEF OnePid
<1>2. CASE \E new \in Process : new.pid = pids + 1 /\ procs' = procs \cup {new}
  <2>1. PICK new \in Process : new.pid = pids + 1 /\ procs' = procs \cup {new}
    BY <1>2
  <2>2. \A p \in procs : p.pid # new.pid
    BY <2>1, ProcessTypes, FleetHostAssumption DEF HostInv, TypeOK, FenceInv
  <2> QED
    BY <2>1, <2>2 DEF OnePid
<1>3. procs' \subseteq procs \/ \E new \in Process : new.pid = pids + 1 /\ procs' = procs \cup {new}
  <2>1. CASE Spawn
    <3> DEFINE new == [pid |-> pids + 1, agent |-> launch.agent, cid |-> live[launch.agent],
                       key |-> keystore[launch.agent].anchor, life |-> life]
    <3>1. procs' \subseteq procs \/ procs' = procs \cup {new}
      BY <2>1 DEF Spawn
    <3>2. HostInv'
      BY HostStep
    <3>3. new.pid = pids + 1 /\ (new \in procs' => new \in Process)
      BY <3>2 DEF HostInv, TypeOK
    <3> HIDE DEF new
    <3> QED
      BY <3>1, <3>3
  <2>2. CASE ~Spawn
    BY <2>2 DEF Next, LaunchStep, Die, Crash, Start, RolledBack, Observe, Reconciled, LaunchedAll, re_adopt,
         reap_orphan, ReapKill, ReapRelease, ReapClean, ReapForget, ReapClear, KillAndReap, ReapDead,
         ForgetDead, Allocate, Provision, SaveAnchor, Claim, Record, Finalize, GiveBack, Refused,
         LaunchNext, SpawnRequest, TakeOver, Others, vars
  <2> QED
    BY <2>1, <2>2
<1> QED
  BY <1>1, <1>2, <1>3

(* No slot is given twice: it is given when free, and is then one agent's.     *)
LEMMA ApartStep == ASSUME HostInv, Apart, [Next]_vars PROVE Apart'
<1>1. CASE UNCHANGED live
  BY <1>1 DEF Apart
<1>2. CASE \E a \in Agents : live' = [live EXCEPT ![a] = 0]
  BY <1>2 DEF Apart, HostInv, TypeOK
<1>3. CASE \E a \in Agents, cid \in FreeCids : live' = [live EXCEPT ![a] = cid]
  BY <1>3 DEF Apart, FreeCids, HostInv, TypeOK
<1>4. \/ UNCHANGED live \/ \E a \in Agents : live' = [live EXCEPT ![a] = 0]
      \/ \E a \in Agents, cid \in FreeCids : live' = [live EXCEPT ![a] = cid]
  <2>1. CASE Allocate
    BY <2>1, LaunchTypes DEF Allocate, At, Launching, HostInv, lowest_free
  <2>2. CASE GiveBack
    BY <2>2, LaunchTypes DEF GiveBack, At, Launching, HostInv
  <2>3. CASE ReapRelease
    BY <2>3 DEF ReapRelease, AtReap, HostInv, TypeOK, Reap
  <2>4. CASE KillAndReap \/ ReapDead
    BY <2>4 DEF KillAndReap, ReapDead, Tracked
  <2>5. CASE ~(Allocate \/ GiveBack \/ ReapRelease \/ KillAndReap \/ ReapDead)
    BY <2>5 DEF Next, LaunchStep, Die, Crash, Start, RolledBack, Observe, Reconciled, LaunchedAll, re_adopt,
         reap_orphan, ReapKill, ReapClean, ReapForget, ReapClear, ForgetDead, Provision, SaveAnchor, Claim,
         Spawn, Record, Finalize, Refused, LaunchNext, SpawnRequest, TakeOver, vars, disk
  <2> QED
    BY <2>1, <2>2, <2>3, <2>4, <2>5
<1> QED
  BY <1>1, <1>2, <1>3, <1>4

LEMMA VacantOn ==
  ASSUME procs' \subseteq procs, cut \subseteq cut', NEW a, Vacant(a)
  PROVE  Vacant(a)'
BY DEF Vacant

(* What is taken from an agent, or given to it, is when it is not running.     *)
LEMMA HousedOn ==
  ASSUME TypeOK, Housed, procs' \subseteq procs, cut \subseteq cut',
         \A a \in Agents : \/ Vacant(a)'
                           \/ live'[a] = live[a] /\ Held(a)' = Held(a) /\ keystore'[a] = keystore[a]
  PROVE  Housed'
<1> SUFFICES ASSUME NEW p \in procs', p.agent \notin cut'
             PROVE  /\ p.cid = live'[p.agent] /\ p.pid = Held(p.agent)'
                    /\ keystore'[p.agent] = [shares |-> p.key, anchor |-> p.key]
  BY DEF Housed
<1>1. p \in procs /\ p.agent \in Agents /\ p.agent \notin cut /\ ~Vacant(p.agent)'
  BY ProcessTypes DEF Vacant
<1> QED
  BY <1>1 DEF Housed

LEMMA NotRecord ==
  ASSUME ~At("record"), ~At("record")', NEW a \in Agents PROVE Held(a) = records[a] /\ Held(a)' = records'[a]
BY DEF Held

(* What is tracked is recorded, and nothing tracked is being reaped.           *)
LEMMA TrackedStep == ASSUME HostInv, TrackedIsRecorded, [Next]_vars PROVE TrackedIsRecorded'
<1>1. CASE Record
  <2>1. PICK a \in Agents : records' = [records EXCEPT ![a] = launch.pid] /\ tenants' = [tenants EXCEPT ![a] = launch.pid]
    BY <1>1, LaunchTypes DEF Record, At, Launching, HostInv
  <2>2. phase' # "reconcile" /\ ~Reaping'
    BY <1>1 DEF Record, At, HostInv, Course, Launching, Reaping
  <2> QED
    BY <2>1, <2>2 DEF TrackedIsRecorded, Tracked, HostInv, TypeOK
<1>2. ASSUME NEW a \in Agents, re_adopt(a) PROVE TrackedIsRecorded'
  BY <1>2 DEF re_adopt, TrackedIsRecorded, Tracked, Reaping, HostInv, TypeOK, disk
<1>3. ASSUME NEW a \in Agents, reap_orphan(a) PROVE TrackedIsRecorded'
  <2>1. a \notin Tracked
    BY <1>3 DEF reap_orphan, TrackedIsRecorded
  <2> QED
    BY <1>3, <2>1 DEF reap_orphan, TrackedIsRecorded, Tracked, Reaping, HostInv, TypeOK, disk
<1>4. CASE ReapForget \/ ForgetDead
  <2>1. Reaping /\ records' = [records EXCEPT ![reaping.agent] = 0] /\ UNCHANGED <<tenants, verdicts, phase>>
    BY <1>4 DEF ReapForget, ForgetDead, AtReap, Reaping
  <2>2. ~Reaping' \/ reaping'.agent = reaping.agent
    BY <1>4, <2>1, ReapGotoOK DEF ReapForget, ForgetDead, Reaping, HostInv, ReapStages
  <2> QED
    BY <2>1, <2>2 DEF TrackedIsRecorded, Tracked, HostInv, TypeOK
<1>5. CASE ReapKill \/ ReapRelease \/ ReapClean \/ ReapClear
  <2>1. Reaping /\ UNCHANGED <<tenants, records, verdicts, phase>>
    BY <1>5 DEF ReapKill, ReapRelease, ReapClean, ReapClear, AtReap, Reaping, disk
  <2>2. ~Reaping' \/ reaping'.agent = reaping.agent
    BY <1>5, <2>1, ReapGotoOK DEF ReapKill, ReapRelease, ReapClean, ReapClear, Reaping, HostInv, ReapStages
  <2> QED
    BY <2>1, <2>2 DEF TrackedIsRecorded, Tracked
<1>6. CASE KillAndReap \/ ReapDead
  <2>1. PICK a \in Agents :
          /\ tenants' = [tenants EXCEPT ![a] = 0] /\ records' \in {records, [records EXCEPT ![a] = 0]}
          /\ UNCHANGED <<phase, verdicts>> /\ phase # "reconcile"
          /\ reaping' = reaping \/ (Reaping' /\ reaping'.agent = a)
    BY <1>6 DEF KillAndReap, ReapDead, Idle, Tracked, Reaping
  <2> QED
    BY <2>1 DEF TrackedIsRecorded, Tracked, Reaping, HostInv, TypeOK
<1>7. CASE Crash \/ RolledBack \/ Observe \/ Start
  <2>1. tenants' = Nothing
    BY <1>7 DEF Crash, RolledBack, Down, Observe, Start, HostInv, Course, Fresh
  <2> QED
    BY <2>1 DEF TrackedIsRecorded, Tracked, Nothing
<1>8. CASE /\ ~(Record \/ ReapForget \/ ForgetDead \/ ReapKill \/ ReapRelease \/ ReapClean \/ ReapClear)
           /\ ~(KillAndReap \/ ReapDead \/ Crash \/ RolledBack \/ Observe \/ Start)
           /\ ~ \E a \in Agents : re_adopt(a) \/ reap_orphan(a)
  <2>1. UNCHANGED <<tenants, records, verdicts, reaping>> /\ (phase' = phase \/ phase' # "reconcile")
    BY <1>8 DEF Next, LaunchStep, Die, Reconciled, LaunchedAll, Allocate, Provision, SaveAnchor, Claim, Spawn,
         Finalize, GiveBack, Refused, LaunchNext, SpawnRequest, TakeOver, vars, disk, memory
  <2> QED
    BY <2>1 DEF TrackedIsRecorded, Tracked, Reaping
<1> QED
  BY <1>1, <1>2, <1>3, <1>4, <1>5, <1>6, <1>7, <1>8

-----------------------------------------------------------------------------
(* The steps of a launch, by which agents come to be housed.                   *)
LEMMA AgentsVacant ==
  ASSUME HostInv, Housed, NEW a \in Agents, live[a] = 0 PROVE Vacant(a)
<1>1. \A p \in procs : p.cid # 0
  BY ProcessTypes DEF HostInv
<1> QED
  BY <1>1 DEF Housed, Vacant

LEMMA HousedAllocate == ASSUME HostInv, HouseInv, Allocate PROVE Housed' /\ EmptyHands'
<1>0. PICK a \in Agents : a = launch.agent
  BY LaunchTypes DEF Allocate, At, Launching, HostInv
<1>1. /\ Launching /\ launch.agent = a /\ launch.stage = "allocate" /\ ~At("record") /\ ~Reaping
      /\ UNCHANGED <<records, keystore, procs, reaping, cut>>
  BY <1>0 DEF Allocate, At, Launching, HostInv, Course
<1>2. CASE Goto("refused") /\ UNCHANGED live
  <2>1. Launching' /\ launch'.stage = "refused" /\ ~At("record")'
    BY <1>1, <1>2, GotoOK DEF HostInv, At, Stages
  <2>2. Housed'
    BY <1>1, <1>2, <2>1, HousedOn, NotRecord DEF HouseInv, HostInv
  <2> QED
    BY <1>1, <2>1, <2>2 DEF EmptyHands, EmptyStages, Reaping
<1>3. CASE a \notin Allocated /\ Goto("shares") /\ \E cid \in Cid : live' = [live EXCEPT ![a] = cid]
  <2>1. Launching' /\ launch'.stage = "shares" /\ launch'.agent = a /\ ~At("record")'
    BY <1>1, <1>3, GotoOK DEF HostInv, At, Stages
  <2>2. Vacant(a) /\ Vacant(a)'
    BY <1>1, <1>3, AgentsVacant, VacantOn DEF HouseInv, Allocated
  <2>3. \A b \in Agents : b # a => live'[b] = live[b]
    BY <1>1, <1>3 DEF HostInv, TypeOK
  <2>4. Housed'
    BY <1>1, <2>1, <2>2, <2>3, HousedOn, NotRecord DEF HouseInv, HostInv
  <2> QED
    BY <1>1, <2>1, <2>2, <2>4 DEF EmptyHands, Reaping
<1> QED
  BY <1>1, <1>2, <1>3 DEF Allocate

LEMMA HousedProvision == ASSUME HostInv, HouseInv, Provision \/ SaveAnchor PROVE Housed' /\ EmptyHands'
<1>0. PICK a \in Agents : a = launch.agent
  BY LaunchTypes DEF Provision, SaveAnchor, At, Launching, HostInv
<1>1. /\ Launching /\ launch.agent = a /\ launch.stage \in {"shares", "anchor"} /\ ~At("record") /\ ~Reaping
      /\ UNCHANGED <<live, records, procs, reaping, cut>>
  BY <1>0 DEF Provision, SaveAnchor, At, Launching, HostInv, Course
<1>2. \E stage \in {"anchor", "claim", "failed"} : Goto(stage)
  BY DEF Provision, SaveAnchor
<1>3. Launching' /\ launch'.stage \in {"anchor", "claim", "failed"} /\ launch'.agent = a /\ ~At("record")'
  BY <1>1, <1>2, GotoOK DEF HostInv, At, Stages
<1>4. Vacant(a)'
  BY <1>1, VacantOn DEF HouseInv, EmptyHands, EmptyStages
<1>5. ASSUME NEW b \in Agents, b # a PROVE keystore'[b] = keystore[b]
  BY <1>1, <1>5 DEF Provision, SaveAnchor, HostInv, TypeOK
<1>6. Housed'
  BY <1>1, <1>3, <1>4, <1>5, HousedOn, NotRecord DEF HouseInv, HostInv
<1> QED
  BY <1>1, <1>3, <1>4, <1>6 DEF EmptyHands, Reaping

LEMMA HousedSpawn == ASSUME HostInv, HouseInv, Spawn PROVE Housed' /\ EmptyHands'
<1>0. PICK a \in Agents : a = launch.agent
  BY LaunchTypes DEF Spawn, At, Launching, HostInv
<1> DEFINE pid == pids + 1
           new == [pid |-> pid, agent |-> a, cid |-> live[a], key |-> keystore[a].anchor, life |-> life]
<1>1. /\ Launching /\ launch.agent = a /\ launch \in Launch /\ launch.stage = "spawn" /\ ~At("record") /\ ~Reaping
      /\ UNCHANGED <<live, records, keystore, reaping, cut>> /\ Vacant(a) /\ LoadsKeyset(a)
  BY <1>0, LaunchTypes DEF Spawn, At, Launching, HostInv, Course, disk, HouseInv, EmptyHands, EmptyStages, Making
<1>2. CASE Goto("failed") /\ UNCHANGED <<procs, pids>>
  <2>1. Launching' /\ launch'.stage = "failed" /\ launch'.agent = a /\ ~At("record")'
    BY <1>1, <1>2, GotoOK DEF HostInv, At, Stages
  <2>2. Housed' /\ Vacant(a)'
    BY <1>1, <1>2, <2>1, HousedOn, NotRecord, VacantOn DEF HouseInv, HostInv
  <2> QED
    BY <1>1, <2>1, <2>2 DEF EmptyHands, Reaping
<1>3. CASE procs' = procs \cup {new} /\ launch' = [launch EXCEPT !.stage = "record", !.pid = pid]
  <2>1. new.agent = a /\ new.pid = pid /\ new.cid = live[a] /\ new.key = keystore[a].anchor
    OBVIOUS
  <2>2. /\ launch' \in Launch /\ launch'.stage = "record" /\ launch'.pid = pid /\ launch'.agent = a
    <3>1. pid \in Pid
      <4>1. procs' \subseteq Process /\ new \in procs'
        BY <1>3, SpawnOK DEF HostInv, TypeOK
      <4> HIDE DEF new, pid
      <4> QED BY <2>1, <4>1 DEF Process
    <3> HIDE DEF pid, new
    <3> QED BY <1>1, <1>3, <3>1 DEF Launch, Stages
  <2> HIDE DEF new, pid
  <2>3. Launching' /\ At("record")'
    BY <2>2, FleetHostAssumption DEF Launching, At
  <2>4. keystore[a] = [shares |-> new.key, anchor |-> new.key]
    BY <1>1, <2>1 DEF LoadsKeyset, HostInv, TypeOK, Keystore
  <2>5. ASSUME NEW p \in procs', p.agent \notin cut'
        PROVE  /\ p.cid = live'[p.agent] /\ p.pid = Held(p.agent)'
               /\ keystore'[p.agent] = [shares |-> p.key, anchor |-> p.key]
    <3>1. CASE p = new
      BY <1>1, <2>1, <2>2, <2>3, <2>4, <3>1 DEF Held
    <3>2. CASE p \in procs
      <4>1. p.agent # a
        BY <1>1, <2>5, <3>2 DEF Vacant
      <4>2. Held(p.agent)' = Held(p.agent)
        BY <1>1, <2>2, <2>3, <4>1 DEF Held
      <4> QED
        BY <1>1, <2>5, <3>2, <4>2 DEF HouseInv, Housed
    <3> QED
      BY <1>3, <3>1, <3>2
  <2> QED
    BY <1>1, <2>2, <2>3, <2>5 DEF Housed, EmptyHands, EmptyStages, Reaping
<1> QED
  BY <1>1, <1>2, <1>3 DEF Spawn

LEMMA HousedRecord == ASSUME HostInv, HouseInv, Record PROVE Housed' /\ EmptyHands'
<1> DEFINE a == launch.agent
<1>1. /\ Launching /\ At("record") /\ ~Reaping /\ a \in Agents
      /\ records' = [records EXCEPT ![a] = launch.pid] /\ records \in [Agents -> Pid \cup {0}]
      /\ UNCHANGED <<live, keystore, procs, reaping, cut>>
  BY LaunchTypes DEF Record, At, Launching, HostInv, Course, TypeOK
<1>2. ~Launching' \/ launch'.stage = "finalize"
  BY <1>1, GotoOK DEF Record, Launching, HostInv, Stages
<1>3. \A b \in Agents : Held(b)' = Held(b)
  BY <1>1, <1>2 DEF Held, At, Launching
<1>4. Housed'
  BY <1>1, <1>3, HousedOn DEF HouseInv, HostInv
<1> QED
  BY <1>1, <1>2, <1>4 DEF EmptyHands, EmptyStages, Reaping, Launching

(* The other steps of a launch give nothing but a slot back.                   *)
LEMMA HousedLaunch ==
  ASSUME HostInv, HouseInv,
         \/ Claim \/ Finalize \/ GiveBack \/ Refused \/ LaunchNext
         \/ \E a \in Agents : SpawnRequest(a) \/ TakeOver(a)
  PROVE  Housed' /\ EmptyHands'
<1>1. /\ ~Reaping /\ UNCHANGED <<records, keystore, procs, reaping, cut>>
      /\ ~At("record")
  BY DEF Claim, Finalize, GiveBack, Refused, LaunchNext, SpawnRequest, TakeOver, Idle, At, Launching, Reaping,
         HostInv, Course, disk
<1>2. \/ ~Launching'
      \/ launch'.stage \in {"allocate", "refused"}
      \/ /\ Launching /\ launch.stage = "claim"
         /\ launch'.stage \in {"spawn", "failed"} /\ launch'.agent = launch.agent
  <2>1. CASE Claim \/ GiveBack
    BY <2>1, GotoOK DEF Claim, GiveBack, At, Launching, HostInv, Stages
  <2>2. CASE Finalize \/ Refused
    BY <2>2 DEF Finalize, Refused, Launching
  <2>3. CASE LaunchNext \/ \E a \in Agents : SpawnRequest(a) \/ TakeOver(a)
    BY <2>3 DEF LaunchNext, SpawnRequest, TakeOver, Begin
  <2> QED
    BY <2>1, <2>2, <2>3
<1>3. ~At("record")'
  BY <1>2 DEF At, Launching
<1>4. \A a \in Agents : Vacant(a)' \/ live'[a] = live[a]
  <2>1. CASE GiveBack
    <3>1. Vacant(launch.agent)
      BY <2>1 DEF GiveBack, At, Launching, HouseInv, EmptyHands, EmptyStages
    <3> QED
      BY <1>1, <2>1, <3>1, VacantOn DEF GiveBack, HostInv, TypeOK
  <2>2. CASE ~GiveBack
    BY <2>2 DEF Claim, Finalize, Refused, LaunchNext, SpawnRequest, TakeOver, disk
  <2> QED
    BY <2>1, <2>2
<1>5. Housed'
  BY <1>1, <1>3, <1>4, HousedOn, NotRecord DEF HouseInv, HostInv
<1>6. ASSUME Launching, launch.stage = "claim", launch'.agent = launch.agent PROVE Vacant(launch.agent)'
  <2>1. PICK a \in Agents : a = launch.agent
    BY <1>6, LaunchTypes DEF HostInv
  <2>2. Vacant(a)'
    BY <1>1, <1>6, <2>1, VacantOn DEF HouseInv, EmptyHands, EmptyStages
  <2> QED
    BY <1>6, <2>1, <2>2
<1> QED
  BY <1>1, <1>2, <1>5, <1>6 DEF EmptyHands, EmptyStages, Reaping

(* What the reconcile and the loop end, they end before they clear it away.    *)
LEMMA HousedKill == ASSUME HostInv, HouseInv, ReapKill PROVE Housed' /\ EmptyHands'
<1>0. PICK a \in Agents : a = reaping.agent
  BY DEF ReapKill, AtReap, HostInv, TypeOK, Reap
<1>1. /\ Reaping /\ ~Launching /\ reaping.agent = a /\ procs' = Others(a, records[a])
      /\ UNCHANGED <<live, records, keystore, launch, cut>>
  BY <1>0 DEF ReapKill, AtReap, Reaping, HostInv, Course, disk
<1>2. procs' \subseteq procs
  BY <1>1 DEF Others
<1>3. Housed'
  BY <1>1, <1>2, HousedOn DEF HouseInv, HostInv, Held, At, Launching
<1>4. Vacant(a)'
  BY <1>1 DEF Vacant, Others, HouseInv, Housed, Held, At, Launching
<1>5. Reaping' /\ reaping'.agent = a
  BY <1>1, ReapGotoOK DEF ReapKill, HostInv, ReapStages
<1> QED
  BY <1>1, <1>3, <1>4, <1>5 DEF EmptyHands, Launching

LEMMA HousedReap ==
  ASSUME HostInv, HouseInv, ReapRelease \/ ReapClean \/ ReapForget \/ ReapClear \/ ForgetDead
  PROVE  Housed' /\ EmptyHands'
<1>0. PICK a \in Agents : a = reaping.agent
  BY DEF ReapRelease, ReapClean, ReapForget, ReapClear, ForgetDead, AtReap, HostInv, TypeOK, Reap
<1>1. /\ Reaping /\ ~Launching /\ reaping.agent = a /\ reaping.stage # "kill" /\ UNCHANGED <<procs, launch, cut>>
  BY <1>0 DEF ReapRelease, ReapClean, ReapForget, ReapClear, ForgetDead, AtReap, Reaping, HostInv, Course
<1>2. Vacant(a)'
  BY <1>1, VacantOn DEF HouseInv, EmptyHands
<1>3. ASSUME NEW b \in Agents, b # a PROVE live'[b] = live[b] /\ records'[b] = records[b] /\ keystore'[b] = keystore[b]
  BY <1>1, <1>3 DEF ReapRelease, ReapClean, ReapForget, ReapClear, ForgetDead, HostInv, TypeOK
<1>4. Housed'
  BY <1>1, <1>2, <1>3, HousedOn, NotRecord DEF HouseInv, HostInv, At, Launching
<1>5. ~Reaping' \/ reaping'.agent = a
  BY <1>1, ReapGotoOK DEF ReapRelease, ReapClean, ReapForget, ReapClear, ForgetDead, HostInv, ReapStages, Reaping
<1> QED
  BY <1>1, <1>2, <1>4, <1>5 DEF EmptyHands, Launching

LEMMA HousedEnds == ASSUME HostInv, HouseInv, KillAndReap \/ ReapDead PROVE Housed' /\ EmptyHands'
<1>1. /\ ~Launching /\ ~Reaping /\ procs' \subseteq procs /\ UNCHANGED <<keystore, launch, cut>>
  BY DEF KillAndReap, ReapDead, Idle, Others, Launching, Reaping, HostInv, Course
<1>2. \A b \in Agents : Held(b) = records[b]
  BY <1>1 DEF Held, At, Launching
<1>3. PICK a \in Agents :
        /\ a \in Tracked /\ \A p \in procs' : ~(p.agent = a /\ p.pid = tenants[a])
        /\ live' = [live EXCEPT ![a] = 0] /\ records' \in {records, [records EXCEPT ![a] = 0]}
        /\ reaping' = reaping \/ reaping'.agent = a
  BY DEF KillAndReap, ReapDead, Running, Others, Tracked
<1>4. Vacant(a)'
  <2>1. tenants[a] = Held(a)
    BY <1>2, <1>3 DEF HouseInv, TrackedIsRecorded
  <2> QED
    BY <1>1, <1>3, <2>1 DEF Vacant, HouseInv, Housed
<1>5. Housed'
  BY <1>1, <1>3, <1>4, HousedOn, NotRecord DEF HouseInv, HostInv, TypeOK, At, Launching
<1> QED
  BY <1>1, <1>3, <1>4, <1>5 DEF EmptyHands, Launching, Reaping

(* A supervisor that is killed leaves a process without its record behind only *)
(* if it was between the two.                                                  *)
LEMMA HousedCrash == ASSUME HostInv, HouseInv, Crash PROVE Housed' /\ EmptyHands'
<1>1. /\ procs' \subseteq procs /\ cut' = cut \cup Cut /\ launch' = NoLaunch /\ reaping' = NoReap
      /\ UNCHANGED <<live, records, keystore>>
  BY DEF Crash, Down, disk
<1>2. ASSUME NEW a \in Agents PROVE Vacant(a)' \/ Held(a)' = Held(a)
  <2>1. CASE At("record") /\ launch.agent = a
    BY <1>1, <2>1 DEF At, Cut, Vacant
  <2>2. CASE ~(At("record") /\ launch.agent = a)
    BY <1>1, <2>2 DEF Held, At
  <2> QED
    BY <2>1, <2>2
<1>3. Housed'
  BY <1>1, <1>2, HousedOn DEF HouseInv, HostInv
<1> QED
  BY <1>1, <1>3 DEF EmptyHands, Launching, Reaping

LEMMA HousedRest ==
  ASSUME HostInv, HouseInv,
         \/ Die \/ Start \/ RolledBack \/ Observe \/ Reconciled \/ LaunchedAll
         \/ \E a \in Agents : re_adopt(a) \/ reap_orphan(a)
  PROVE  Housed' /\ EmptyHands'
<1>1. /\ procs' \subseteq procs /\ UNCHANGED <<live, records, keystore, cut>>
  BY DEF Die, Start, RolledBack, Observe, Reconciled, LaunchedAll, re_adopt, reap_orphan, disk
<1>2. launch' = launch
  BY DEF Die, Start, RolledBack, Observe, Reconciled, LaunchedAll, re_adopt, reap_orphan, memory, Down,
         HostInv, Course, Launching
<1>3. reaping' = reaping \/ reaping' = NoReap \/ \E a \in Agents : reaping' = [agent |-> a, stage |-> "kill"]
  BY DEF Die, Start, RolledBack, Observe, Reconciled, LaunchedAll, re_adopt, reap_orphan, memory, Down
<1>4. Housed'
  BY <1>1, <1>2, HousedOn DEF HouseInv, HostInv, Held, At
<1> QED
  BY <1>1, <1>2, <1>3, <1>4 DEF HouseInv, EmptyHands, Vacant, Launching, Reaping

LEMMA HouseInit == Init => HouseInv
BY FleetHostAssumption
   DEF Init, HouseInv, OnePid, Apart, Housed, EmptyHands, TrackedIsRecorded, Tracked, Nothing, Launching, Reaping

LEMMA HouseStep == HostInv /\ FenceInv /\ HouseInv /\ [Next]_vars => HouseInv'
<1> SUFFICES ASSUME HostInv, FenceInv, HouseInv, [Next]_vars PROVE HouseInv'
  OBVIOUS
<1>1. Housed' /\ EmptyHands'
  <2>1. CASE UNCHANGED vars
    BY <2>1 DEF vars, disk, memory, HouseInv, Housed, EmptyHands, Held, At, Vacant, Launching, Reaping
  <2> QED
    BY <2>1, HousedAllocate, HousedProvision, HousedSpawn, HousedRecord, HousedLaunch, HousedKill, HousedReap,
       HousedEnds, HousedCrash, HousedRest DEF Next, LaunchStep
<1> QED
  BY <1>1, OnePidStep, ApartStep, TrackedStep DEF HouseInv

(* However often the supervisor is killed, and between whatever two steps, no  *)
(* agent runs twice and no guest CID is shared, the agents of launches cut     *)
(* short apart (fleet.rs Allocator, fleet_supervisor.rs reconcile, reap_dead). *)
THEOREM OneProcessEach == Spec => []OneProcess
<1>1. HostInv /\ HouseInv => OneProcess
  <2> SUFFICES ASSUME HostInv, HouseInv, NEW p \in procs, NEW q \in procs, p # q,
                      {p.agent, q.agent} \cap cut = {}
               PROVE  p.agent # q.agent /\ p.cid # q.cid
    BY DEF OneProcess
  <2>1. p.agent \in Agents /\ q.agent \in Agents /\ p.cid # 0
    BY ProcessTypes DEF HostInv
  <2> QED
    <3>1. p.agent \notin cut /\ q.agent \notin cut
      OBVIOUS
    <3>2. /\ p.cid = live[p.agent] /\ q.cid = live[q.agent]
          /\ p.pid = Held(p.agent) /\ q.pid = Held(q.agent)
      BY <3>1 DEF HouseInv, Housed
    <3>3. p.pid = q.pid => p = q
      BY DEF HouseInv, OnePid
    <3> QED
      BY <2>1, <3>2, <3>3 DEF HouseInv, Apart
<1> QED
  BY <1>1, HostInit, HostStep, FenceInit, FenceStep, HouseInit, HouseStep, PTL DEF Spec

(* An agent that runs finds the key it was born with on disk, whatever was     *)
(* reaped, rolled back or launched around it (fleet_supervisor.rs reap_orphan, *)
(* keyset_provisioning.rs provision_keyset_at).                                *)
THEOREM IdentityIsKept == Spec => []IdentityKept
<1>1. HouseInv => IdentityKept
  BY DEF HouseInv, Housed, IdentityKept
<1> QED
  BY <1>1, HostInit, HostStep, FenceInit, FenceStep, HouseInit, HouseStep, PTL DEF Spec

-----------------------------------------------------------------------------
(* What every slot is for.                                                     *)
Owed(a) == a \in Recorded \/ (Launching /\ launch.agent = a /\ launch.stage \in Slotted)
SlotsOwed == \A a \in Agents : live[a] # 0 /\ a \notin cut => Owed(a)
Cleared ==
  /\ Reaping /\ reaping.stage \in {"clean", "forget", "clear"} => live[reaping.agent] = 0
  /\ Reaping /\ reaping.stage = "clear" => records[reaping.agent] = 0
SeenToBe(a) == verdicts[a] # "done" \/ a \in Tracked \/ (Reaping /\ reaping.agent = a)
RecordsSeen ==
  phase \in {"reconcile", "launch_all", "loop"} /\ observed = "complete" => \A a \in Recorded : SeenToBe(a)

SlotInv == SlotsOwed /\ Cleared /\ RecordsSeen

LEMMA SlotsOwedOn ==
  ASSUME SlotsOwed, cut \subseteq cut',
         \A a \in Agents : \/ live'[a] = 0 \/ a \in cut' \/ Owed(a)'
                           \/ live'[a] = live[a] /\ (Owed(a) => Owed(a)')
  PROVE  SlotsOwed'
BY DEF SlotsOwed

(* How a launch goes on.                                                       *)
LEMMA LaunchGoesOn ==
  ASSUME HostInv, Allocate \/ Provision \/ SaveAnchor \/ Claim \/ Spawn \/ GiveBack
  PROVE  /\ Launching /\ launch.agent \in Agents /\ Launching' /\ launch'.agent = launch.agent
         /\ \/ launch.stage # "failed" /\ launch'.stage \in Slotted
            \/ launch.stage = "allocate" /\ launch'.stage = "refused" /\ UNCHANGED live
            \/ GiveBack
<1>1. CASE Spawn
  <2> DEFINE pid == pids + 1
  <2>1. Launching /\ launch.stage = "spawn" /\ launch \in Launch /\ launch.agent \in Agents
    BY <1>1, LaunchTypes DEF Spawn, At, Launching, HostInv
  <2>2. CASE Goto("failed")
    BY <2>1, <2>2, GotoOK DEF HostInv, Stages, Slotted
  <2>3. CASE pids < MaxPid /\ launch' = [launch EXCEPT !.stage = "record", !.pid = pid]
    <3>1. pid \in Pid
      BY <2>3, FleetHostAssumption DEF HostInv, TypeOK, Pid
    <3> HIDE DEF pid
    <3>2. launch' \in Launch /\ launch'.stage = "record" /\ launch'.agent = launch.agent
      BY <2>1, <2>3, <3>1 DEF Launch, Stages
    <3> QED
      BY <2>1, <3>2, FleetHostAssumption DEF Launching, Slotted
  <2> QED
    BY <1>1, <2>2, <2>3 DEF Spawn
<1>2. CASE Allocate
  BY <1>2, LaunchTypes, GotoOK DEF Allocate, At, Launching, HostInv, Stages, Slotted
<1>3. CASE Provision \/ SaveAnchor \/ Claim
  BY <1>3, LaunchTypes, GotoOK DEF Provision, SaveAnchor, Claim, At, Launching, HostInv, Stages, Slotted
<1>4. CASE GiveBack
  BY <1>4, LaunchTypes, GotoOK DEF GiveBack, At, Launching, HostInv, Stages
<1> QED
  BY <1>1, <1>2, <1>3, <1>4

LEMMA SlotsOwedLaunch ==
  ASSUME HostInv, SlotsOwed, Allocate \/ Provision \/ SaveAnchor \/ Claim \/ Spawn \/ GiveBack
  PROVE  SlotsOwed'
<1>1. /\ UNCHANGED <<records, cut>>
      /\ \A a \in Agents : a = launch.agent \/ live'[a] = live[a]
      /\ GiveBack => live'[launch.agent] = 0
  BY LaunchGoesOn DEF Allocate, Provision, SaveAnchor, Claim, Spawn, GiveBack, HostInv, TypeOK, disk
<1>2. ASSUME NEW a \in Agents, a # launch.agent PROVE live'[a] = live[a] /\ (Owed(a) => Owed(a)')
  BY <1>1, <1>2 DEF Owed, Recorded
<1>3. PICK a \in Agents : a = launch.agent
  BY LaunchGoesOn
<1>4. Launching' /\ launch'.agent = a
  BY <1>3, LaunchGoesOn
<1>5. \/ live'[a] = 0 \/ Owed(a)'
      \/ live'[a] = live[a] /\ launch.stage = "allocate"
  BY <1>1, <1>3, <1>4, LaunchGoesOn DEF Owed
<1>6. launch.stage = "allocate" => (Owed(a) => Owed(a)')
  BY <1>1, <1>3 DEF Owed, Recorded, Slotted
<1> QED
  BY <1>1, <1>2, <1>3, <1>4, <1>5, <1>6, SlotsOwedOn

LEMMA SlotsOwedRecord == ASSUME HostInv, SlotsOwed, Record PROVE SlotsOwed'
<1>1. PICK a \in Agents : /\ a = launch.agent /\ launch.pid # 0 /\ records' = [records EXCEPT ![a] = launch.pid]
                          /\ UNCHANGED <<live, cut>>
  BY LaunchTypes DEF Record, At, Launching, HostInv, Making
<1>2. \A b \in Agents : Owed(b) => Owed(b)'
  BY <1>1 DEF Owed, Recorded, HostInv, TypeOK
<1> QED
  BY <1>1, <1>2, SlotsOwedOn

LEMMA SlotsOwedClears ==
  ASSUME HostInv, SlotsOwed, Cleared, ReapRelease \/ ReapForget \/ ForgetDead \/ KillAndReap \/ ReapDead
  PROVE  SlotsOwed'
<1>1. ~Launching /\ UNCHANGED <<launch, cut>>
  BY DEF ReapRelease, ReapForget, ForgetDead, KillAndReap, ReapDead, AtReap, Idle, HostInv, Course, Launching,
         Reaping
<1>2. PICK a \in Agents : /\ live'[a] = 0
                          /\ \A b \in Agents : b # a => live'[b] = live[b] /\ records'[b] = records[b]
  <2>1. CASE ReapRelease \/ ReapForget \/ ForgetDead
    <3>1. reaping.agent \in Agents
      BY <2>1 DEF ReapRelease, ReapForget, ForgetDead, AtReap, HostInv, TypeOK, Reap
    <3>2. live'[reaping.agent] = 0
      BY <2>1, <3>1 DEF ReapRelease, ReapForget, ForgetDead, AtReap, HostInv, TypeOK, Cleared, Course, Reaping
    <3> QED
      BY <2>1, <3>1, <3>2 DEF ReapRelease, ReapForget, ForgetDead, HostInv, TypeOK
  <2>2. CASE KillAndReap \/ ReapDead
    BY <2>2 DEF KillAndReap, ReapDead, Tracked, HostInv, TypeOK
  <2> QED
    BY <2>1, <2>2
<1>3. \A b \in Agents : b # a => (Owed(b) => Owed(b)')
  BY <1>1, <1>2 DEF Owed, Recorded, Launching
<1> QED
  BY <1>1, <1>2, <1>3, SlotsOwedOn

LEMMA SlotsOwedRest ==
  ASSUME HostInv, SlotsOwed,
         \/ Die \/ Crash \/ Start \/ RolledBack \/ Observe \/ Reconciled \/ LaunchedAll
         \/ \E a \in Agents : re_adopt(a) \/ reap_orphan(a)
         \/ ReapKill \/ ReapClean \/ ReapClear
         \/ Finalize \/ Refused \/ LaunchNext \/ \E a \in Agents : SpawnRequest(a) \/ TakeOver(a)
  PROVE  SlotsOwed'
<1>1. UNCHANGED <<live, records>> /\ cut \subseteq cut'
  BY DEF Die, Crash, Start, RolledBack, Observe, Reconciled, LaunchedAll, re_adopt, reap_orphan, ReapKill,
         ReapClean, ReapClear, Finalize, Refused, LaunchNext, SpawnRequest, TakeOver, Down, disk
<1>2. \/ UNCHANGED launch
      \/ ~Launching
      \/ Launching /\ launch.stage \notin Slotted
      \/ Launching /\ launch.agent \in cut'
  <2>1. CASE Crash
    BY <2>1 DEF Crash, Cut, Launching, Slotted
  <2>2. CASE Finalize \/ Refused
    BY <2>2 DEF Finalize, Refused, At, Slotted
  <2>3. CASE ~(Crash \/ Finalize \/ Refused)
    BY <2>3 DEF Die, Start, RolledBack, Observe, Reconciled, LaunchedAll, re_adopt, reap_orphan, ReapKill,
         ReapClean, ReapClear, LaunchNext, SpawnRequest, TakeOver, Idle, memory, Launching, HostInv, Course
  <2> QED
    BY <2>1, <2>2, <2>3
<1>3. \A a \in Agents : a \in cut' \/ (Owed(a) => Owed(a)')
  BY <1>1, <1>2 DEF Owed, Recorded, Launching
<1> QED
  BY <1>1, <1>3, SlotsOwedOn

LEMMA ClearedStep == ASSUME HostInv, Cleared, [Next]_vars PROVE Cleared'
<1>1. CASE ReapKill \/ ReapRelease \/ ReapClean \/ ReapForget
  <2>1. Reaping /\ reaping.agent \in Agents
    BY <1>1 DEF ReapKill, ReapRelease, ReapClean, ReapForget, AtReap, Reaping, HostInv, TypeOK, Reap
  <2>2. /\ reaping'.agent = reaping.agent
        /\ ReapKill => reaping'.stage = "release"
        /\ ReapRelease => reaping'.stage = "clean"
        /\ ReapClean => reaping.stage = "clean" /\ reaping'.stage \in {"clean", "forget"}
        /\ ReapForget => reaping.stage = "forget" /\ reaping'.stage = "clear"
    BY <1>1, <2>1, ReapGotoOK DEF ReapKill, ReapRelease, ReapClean, ReapForget, AtReap, HostInv, ReapStages
  <2> QED
    BY <1>1, <2>1, <2>2 DEF ReapKill, ReapRelease, ReapClean, ReapForget, Cleared, HostInv, TypeOK, disk
<1>2. CASE ReapDead
  BY <1>2 DEF ReapDead, Cleared, Tracked, HostInv, TypeOK
<1>3. CASE ReapClear \/ ForgetDead \/ Crash \/ RolledBack \/ \E a \in Agents : reap_orphan(a)
  BY <1>3 DEF ReapClear, ForgetDead, Crash, RolledBack, Down, reap_orphan, Cleared, Reaping
<1>4. CASE KillAndReap \/ Allocate \/ GiveBack \/ Record
  <2>1. ~Reaping'
    BY <1>4 DEF KillAndReap, Allocate, GiveBack, Record, At, HostInv, Course, Launching, Reaping
  <2> QED
    BY <2>1 DEF Cleared
<1>5. CASE /\ ~(ReapKill \/ ReapRelease \/ ReapClean \/ ReapForget \/ ReapDead \/ ReapClear \/ ForgetDead)
           /\ ~(Crash \/ RolledBack \/ KillAndReap \/ Allocate \/ GiveBack \/ Record)
           /\ ~ \E a \in Agents : reap_orphan(a)
  <2>1. UNCHANGED <<live, records, reaping>>
    BY <1>5 DEF Next, LaunchStep, Die, Start, Observe, Reconciled, LaunchedAll, re_adopt, Provision, SaveAnchor,
         Claim, Spawn, Finalize, Refused, LaunchNext, SpawnRequest, TakeOver, vars, disk, memory
  <2> QED
    BY <2>1 DEF Cleared, Reaping
<1> QED
  BY <1>1, <1>2, <1>3, <1>4, <1>5

LEMMA RecordsSeenStep == ASSUME HostInv, Cleared, RecordsSeen, [Next]_vars PROVE RecordsSeen'
<1>1. CASE Observe
  <2> SUFFICES ASSUME observed' = "complete", NEW a \in Agents, records[a] # 0 PROVE verdicts'[a] # "done"
    BY <1>1 DEF RecordsSeen, SeenToBe, Recorded, Observe, disk
  <2> QED
    BY <1>1 DEF Observe, reconcile, decide_one, Recorded
<1>2. ASSUME NEW a \in Agents, re_adopt(a) PROVE RecordsSeen'
  BY <1>2 DEF re_adopt, RecordsSeen, SeenToBe, Recorded, Tracked, Reaping, HostInv, TypeOK, disk
<1>3. ASSUME NEW a \in Agents, reap_orphan(a) PROVE RecordsSeen'
  <2>1. Reaping' /\ reaping'.agent = a
    <3>1. reaping' \in Reap
      BY <1>3 DEF reap_orphan, Reap, ReapStages
    <3> QED
      BY <1>3, <3>1, FleetHostAssumption DEF reap_orphan, Reaping
  <2> QED
    BY <1>3, <2>1 DEF reap_orphan, RecordsSeen, SeenToBe, Recorded, Tracked, Reaping, HostInv, TypeOK, disk
<1>4. CASE ReapKill \/ ReapRelease \/ ReapClean
  <2>1. Reaping /\ Reaping' /\ reaping'.agent = reaping.agent
    BY <1>4, ReapGotoOK DEF ReapKill, ReapRelease, ReapClean, AtReap, Reaping, HostInv, ReapStages
  <2> QED
    BY <1>4, <2>1 DEF ReapKill, ReapRelease, ReapClean, RecordsSeen, SeenToBe, Recorded, Tracked, disk
<1>5. CASE ReapForget
  <2>1. Reaping /\ Reaping' /\ reaping'.agent = reaping.agent
    BY <1>5, ReapGotoOK DEF ReapForget, AtReap, Reaping, HostInv, ReapStages
  <2> QED
    BY <1>5, <2>1 DEF ReapForget, RecordsSeen, SeenToBe, Recorded, Tracked, HostInv, TypeOK
<1>6. CASE ReapClear \/ ForgetDead
  <2>1. Reaping /\ records'[reaping.agent] = 0
    BY <1>6 DEF ReapClear, ForgetDead, AtReap, Cleared, Reaping, HostInv, TypeOK, Reap
  <2> QED
    BY <1>6, <2>1 DEF ReapClear, ForgetDead, RecordsSeen, SeenToBe, Recorded, Tracked, HostInv, TypeOK
<1>7. CASE Record
  <2>1. PICK a \in Agents : /\ tenants' = [tenants EXCEPT ![a] = launch.pid] /\ launch.pid # 0
                            /\ records' = [records EXCEPT ![a] = launch.pid]
    BY <1>7, LaunchTypes DEF Record, At, Launching, HostInv, Making
  <2> QED
    BY <1>7, <2>1 DEF Record, RecordsSeen, SeenToBe, Recorded, Tracked, Reaping, HostInv, TypeOK
<1>8. CASE ReapDead
  <2>1. PICK a \in Agents : /\ tenants' = [tenants EXCEPT ![a] = 0]
                            /\ reaping' = [agent |-> a, stage |-> "forget"] /\ ~Reaping
    BY <1>8 DEF ReapDead, Tracked, Idle, Reaping
  <2>2. reaping' \in Reap /\ Reaping' /\ reaping'.agent = a
    BY <2>1, FleetHostAssumption DEF Reap, ReapStages, Reaping
  <2> QED
    BY <1>8, <2>1, <2>2 DEF ReapDead, RecordsSeen, SeenToBe, Recorded, Tracked, HostInv, TypeOK
<1>9. CASE KillAndReap \/ Crash \/ RolledBack \/ Start
  BY <1>9 DEF KillAndReap, Crash, RolledBack, Start, Down, RecordsSeen, HostInv, Course, Fresh
<1>10. CASE /\ ~(Observe \/ ReapKill \/ ReapRelease \/ ReapClean \/ ReapForget \/ ReapClear \/ ForgetDead)
            /\ ~(Record \/ ReapDead \/ KillAndReap \/ Crash \/ RolledBack \/ Start)
            /\ ~ \E a \in Agents : re_adopt(a) \/ reap_orphan(a)
  <2>1. /\ UNCHANGED <<records, tenants, verdicts, reaping, observed>>
        /\ phase' # phase => phase \in {"reconcile", "launch_all"} \/ phase' = "rollback"
    BY <1>10 DEF Next, LaunchStep, Die, Reconciled, LaunchedAll, Allocate, Provision, SaveAnchor, Claim, Spawn,
         Finalize, GiveBack, Refused, LaunchNext, SpawnRequest, TakeOver, vars, disk, memory
  <2> QED
    BY <2>1 DEF RecordsSeen, SeenToBe, Recorded, Tracked, Reaping
<1> QED
  BY <1>1, <1>2, <1>3, <1>4, <1>5, <1>6, <1>7, <1>8, <1>9, <1>10

LEMMA SlotInit == Init => SlotInv
BY FleetHostAssumption DEF Init, SlotInv, SlotsOwed, Cleared, RecordsSeen, Nothing, Reaping

LEMMA SlotStep == HostInv /\ SlotInv /\ [Next]_vars => SlotInv'
<1> SUFFICES ASSUME HostInv, SlotInv, [Next]_vars PROVE SlotInv'
  OBVIOUS
<1>1. SlotsOwed'
  <2>1. CASE UNCHANGED vars
    BY <2>1 DEF vars, disk, memory, SlotInv, SlotsOwed, Owed, Recorded, Launching
  <2> QED
    BY <2>1, SlotsOwedLaunch, SlotsOwedRecord, SlotsOwedClears, SlotsOwedRest DEF Next, LaunchStep, SlotInv
<1> QED
  BY <1>1, ClearedStep, RecordsSeenStep DEF SlotInv

(* No slot leaks: in the loop of a supervisor that has seen all the leases, an *)
(* agent that holds one is tracked or being launched, or its launch was cut    *)
(* short (fleet.rs Allocator, fleet_supervisor.rs apply_reconcile, reap_dead). *)
THEOREM SlotsAreAccounted == Spec => []SlotsAccounted
<1>1. HostInv /\ SlotInv => SlotsAccounted
  <2> SUFFICES ASSUME HostInv, SlotInv, phase = "loop", observed = "complete",
                      NEW a \in Agents, live[a] # 0, a \notin cut
               PROVE  a \in Tracked \/ (launch # NoLaunch /\ launch.agent = a)
    BY DEF SlotsAccounted, Allocated
  <2>1. Owed(a)
    BY DEF SlotInv, SlotsOwed
  <2>2. verdicts[a] = "done"
    BY DEF HostInv, Course, NoVerdicts
  <2>3. ~(Reaping /\ reaping.agent = a)
    BY DEF SlotInv, Cleared, HostInv, Course
  <2> QED
    BY <2>1, <2>2, <2>3 DEF Owed, SlotInv, RecordsSeen, SeenToBe, Launching
<1> QED
  BY <1>1, HostInit, HostStep, SlotInit, SlotStep, PTL DEF Spec
=============================================================================
