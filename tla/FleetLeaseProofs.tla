-------------------------- MODULE FleetLeaseProofs --------------------------
(* Types, the settling of races, the observers' view, the dwell before a       *)
(* takeover, the one host of an agent and the deadline of its failover in      *)
(* FleetLease, for all nodes, agents and delays.                               *)
EXTENDS FleetLease, TLAPS

LEMMA LeasesAreTyped ==
  ASSUME TypeOK, NEW n \in Nodes, NEW t \in Term, NEW i \in Time
  PROVE  [holder |-> n, term |-> t, issued |-> i] \in Lease
  BY DEF Lease

LEMMA PublishTyped ==
  ASSUME TypeOK, NEW a \in Agents, NEW e \in Lease, Publish(a, e)
  PROVE  relay' \in [Agents -> Lease] /\ relayed' \in [Agents -> SUBSET Lease]
<1>1. relayed[a] \cup {e} \in SUBSET Lease
  BY DEF TypeOK
<1>2. \/ relay' = [relay EXCEPT ![a] = e] /\ relayed' = [relayed EXCEPT ![a] = @ \cup {e}]
      \/ UNCHANGED <<relay, relayed>>
  BY DEF Publish
<1> QED
  BY <1>1, <1>2 DEF TypeOK

(* The launch that is awaited is a record.                                     *)
LEMMA LaunchTyped ==
  ASSUME TypeOK, NEW n \in Nodes, ~Idle(n)
  PROVE  /\ launching[n] \in Launch /\ launching[n].agent \in Agents
         /\ launching[n].term \in Term /\ launching[n].issued \in Time
         /\ launching[n].claimed \in Time
  BY FleetLeaseAssumption DEF TypeOK, Idle, Launch

LEMMA InitTyped == ASSUME Init PROVE TypeOK
<1>1. \A a \in Agents : FirstLease(a) \in Lease
  BY FleetLeaseAssumption DEF FirstLease, Lease, Term, Time
<1>2. \A n \in Nodes, a \in Agents : tenants[n][a] \in Tenant \cup {NoTenant}
  BY FleetLeaseAssumption DEF Init, Tenant, Term, Time
<1> QED
  BY <1>1, <1>2, FleetLeaseAssumption DEF Init, TypeOK, Time

LEMMA ScanTyped ==
  ASSUME TypeOK, NEW n \in Nodes, Scan(n)
  PROVE  TypeOK'
<1>1. \A a \in Agents : FirstSeenStale(n, a) \in Time
  BY DEF TypeOK, FirstSeenStale
<1>2. grace_state' \in [Nodes -> [Agents -> Time \cup {Never}]]
  <2>1. KeepStale(n) \in [Agents -> Time \cup {Never}]
    BY <1>1 DEF KeepStale
  <2> QED
    BY <2>1 DEF TypeOK, Scan
<1>3. takeover_backoff' \in [Nodes -> [Agents -> Time \cup {Never}]]
  BY DEF TypeOK, Scan
<1>4. launching' \in [Nodes -> Launch \cup {NoLaunch}]
  <2>1. CASE UNCHANGED launching
    BY <2>1 DEF TypeOK
  <2>2. ASSUME NEW a \in Admissible(n),
               launching' = [launching EXCEPT ![n] =
                 [agent |-> a, term |-> observed[n][a].term + 1, issued |-> now,
                  stage |-> "claim", claimed |-> now, surviving |-> NoLease]]
        PROVE  launching' \in [Nodes -> Launch \cup {NoLaunch}]
    <3>1. a \in Agents /\ observed[n][a] \in Lease
      BY DEF TypeOK, Admissible, detect_takeovers, Candidates, Seen
    <3>2. observed[n][a].term + 1 \in Term
      BY <3>1 DEF Lease, Term
    <3> QED
      BY <2>2, <3>1, <3>2 DEF TypeOK, Launch, Stages
  <2> QED
    BY <2>1, <2>2 DEF Scan
<1> QED
  BY <1>2, <1>3, <1>4 DEF TypeOK, Scan

(* The fence: a claim that lands, is re-read, judged, denied or launched.      *)
LEMMA LaunchStepTyped ==
  ASSUME TypeOK, NEW n \in Nodes,
         \/ ClaimLands(n) \/ latest_lease(n)
         \/ LaunchFails(n) \/ LaunchDenied(n) \/ LaunchTenant(n)
  PROVE  TypeOK'
<1> DEFINE l == launching[n]
<1>1. ~Idle(n) /\ l \in Launch /\ l.agent \in Agents /\ l.term \in Term
      /\ l.issued \in Time /\ l.claimed \in Time
  BY LaunchTyped DEF ClaimLands, latest_lease, LaunchFails, LaunchDenied, LaunchTenant
<1>2. [holder |-> n, term |-> l.term, issued |-> l.issued] \in Lease
  BY <1>1, LeasesAreTyped
<1>3. CASE ClaimLands(n)
  <2>1. relay' \in [Agents -> Lease] /\ relayed' \in [Agents -> SUBSET Lease]
    BY <1>1, <1>2, <1>3, PublishTyped DEF ClaimLands
  <2>2. [l EXCEPT !.stage = "settle", !.claimed = now] \in Launch
    BY <1>1 DEF Launch, Stages, TypeOK
  <2>3. launching' = [launching EXCEPT ![n] = [l EXCEPT !.stage = "settle", !.claimed = now]]
    BY <1>1, <1>3 DEF ClaimLands, TypeOK
  <2> QED
    BY <1>3, <2>1, <2>2, <2>3 DEF ClaimLands, TypeOK
<1>4. CASE latest_lease(n)
  <2>1. PICK s \in {relay[l.agent]} \cup {NoLease} :
          launching' = [launching EXCEPT ![n].stage = "judge", ![n].surviving = s]
    BY <1>4 DEF latest_lease
  <2>2. s \in Lease \cup {NoLease}
    BY <1>1, <2>1 DEF TypeOK
  <2>3. [l EXCEPT !.stage = "judge", !.surviving = s] \in Launch
    BY <1>1, <2>2 DEF Launch, Stages
  <2>4. launching' = [launching EXCEPT ![n] = [l EXCEPT !.stage = "judge", !.surviving = s]]
    BY <1>1, <2>1 DEF TypeOK
  <2> QED
    BY <1>4, <2>3, <2>4 DEF latest_lease, TypeOK
<1>5. CASE LaunchFails(n) \/ LaunchDenied(n)
  <2>1. relay' \in [Agents -> Lease] /\ relayed' \in [Agents -> SUBSET Lease]
    BY <1>1, <1>2, <1>5, PublishTyped DEF LaunchFails, LaunchDenied, TypeOK
  <2>2. Abort(n)
    BY <1>5 DEF LaunchFails, LaunchDenied
  <2>3. takeover_backoff' \in [Nodes -> [Agents -> Time \cup {Never}]]
    BY <1>1, <2>2 DEF Abort, TypeOK
  <2>4. launching' \in [Nodes -> Launch \cup {NoLaunch}]
    BY <2>2 DEF Abort, TypeOK
  <2> QED
    BY <2>1, <2>2, <2>3, <2>4 DEF Abort, TypeOK
<1>6. CASE LaunchTenant(n)
  <2>1. [term |-> l.term, claimed |-> l.claimed, running |-> TRUE] \in Tenant
    BY <1>1 DEF Tenant
  <2> QED
    BY <1>1, <1>6, <2>1 DEF LaunchTenant, TypeOK
<1> QED
  BY <1>3, <1>4, <1>5, <1>6

LEMMA NextTyped == ASSUME TypeOK, [Next]_vars PROVE TypeOK'
<1>1. CASE Tick
  BY <1>1, FleetLeaseAssumption DEF Tick, TypeOK, Time, nodeVars
<1>2. ASSUME NEW n \in Nodes, NEW a \in Agents, Die(n, a)
      PROVE  TypeOK'
  <2>1. tenants[n][a] \in Tenant
    BY <1>2 DEF Die, Runs, Hosted, TypeOK
  <2>2. [tenants[n][a] EXCEPT !.running = FALSE] \in Tenant
    BY <2>1 DEF Tenant
  <2> QED
    BY <1>2, <2>2 DEF Die, TypeOK
<1>3. ASSUME NEW n \in Nodes, reap_dead(n)
      PROVE  TypeOK'
  BY <1>3 DEF reap_dead, TypeOK
<1>4. ASSUME NEW n \in Nodes, NEW a \in Agents, heartbeat_lease(n, a)
      PROVE  TypeOK'
  <2>1. tenants[n][a].term \in Term /\ now \in Time
    BY <1>4 DEF heartbeat_lease, Beating, Runs, Hosted, TypeOK, Tenant
  <2>2. [holder |-> n, term |-> tenants[n][a].term, issued |-> now] \in Lease
    BY <2>1, LeasesAreTyped
  <2> QED
    BY <1>4, <2>2, PublishTyped DEF heartbeat_lease, TypeOK, nodeVars
<1>5. ASSUME NEW n \in Nodes, NEW a \in Agents, observe_occupancy(n, a)
      PROVE  TypeOK'
  <2>1. PICK e \in relayed[a] : observed' = [observed EXCEPT ![n][a] = e]
    BY <1>5 DEF observe_occupancy
  <2>2. e \in Lease
    BY <2>1 DEF TypeOK
  <2> QED
    BY <1>5, <2>1, <2>2 DEF observe_occupancy, TypeOK
<1>6. CASE UNCHANGED vars
  BY <1>6 DEF vars, nodeVars, TypeOK
<1> QED
  BY <1>1, <1>2, <1>3, <1>4, <1>5, <1>6, ScanTyped, LaunchStepTyped DEF Next, Loop

(* The lease lifecycle keeps to its types, whatever the relay delivers.        *)
THEOREM LeaseTypesSafe == Spec => []TypeOK
<1>1. Init => TypeOK
  BY InitTyped
<1>2. TypeOK /\ [Next]_vars => TypeOK'
  BY NextTyped
<1> QED
  BY <1>1, <1>2, PTL DEF Spec

-----------------------------------------------------------------------------
(* The fence.  A claim has won when its node hosts the agent by it, or when    *)
(* its re-read named the node and only the launch is left.  Two wins of one    *)
(* term lie a settling pause apart, and so does a win from the later claim     *)
(* that has replaced it on the relay and is not re-read yet.                   *)
Won(n, a, t, c) ==
  \/ /\ a \in Hosted(n)
     /\ tenants[n][a].term = t /\ tenants[n][a].claimed = c
  \/ /\ ~Idle(n) /\ launching[n].stage = "judge"
     /\ launching[n].agent = a /\ launching[n].term = t /\ launching[n].claimed = c
     /\ confirm_takeover_win(launching[n].surviving, t, n)

(* A claim waits for its re-read and is the one the relay keeps.               *)
Leads(n, a, t, c) ==
  /\ ~Idle(n) /\ launching[n].stage = "settle"
  /\ launching[n].agent = a /\ launching[n].term = t /\ launching[n].claimed = c
  /\ relay[a].holder = n /\ relay[a].term = t

(* Term 1 is the home's; only a takeover is fenced.                            *)
HomeFirst ==
  /\ \A n \in Nodes, a \in Agents :
       a \in Hosted(n) /\ tenants[n][a].term = 1 => n = Home[a]
  /\ \A n \in Nodes : ~Idle(n) => launching[n].term # 1

WonSettled ==
  \A n \in Nodes, a \in Agents, t \in Term, c \in Time :
    Won(n, a, t, c) /\ t # 1 => now >= c + Settle

WinsApart ==
  \A n, m \in Nodes, a \in Agents, t \in Term, c, d \in Time :
    n # m /\ t # 1 /\ Won(n, a, t, c) /\ Won(m, a, t, d)
      => d >= c + Settle \/ c >= d + Settle

LeadsApart ==
  \A n, m \in Nodes, a \in Agents, t \in Term, c, d \in Time :
    n # m /\ t # 1 /\ Won(n, a, t, c) /\ Leads(m, a, t, d) => d >= c + Settle

RaceInv == TypeOK /\ HomeFirst /\ WonSettled /\ WinsApart /\ LeadsApart

(* A step of one node leaves the launches of the others where they are.        *)
LEMMA OneLoopMoves ==
  ASSUME TypeOK, NEW k \in Nodes, Loop(k), NEW n \in Nodes, n # k
  PROVE  launching'[n] = launching[n] /\ tenants'[n] = tenants[n]
<1>1. CASE reap_dead(k) \/ (\E a \in Agents : heartbeat_lease(k, a) \/ observe_occupancy(k, a))
  BY <1>1 DEF reap_dead, heartbeat_lease, observe_occupancy, nodeVars, TypeOK
<1>2. CASE Scan(k) \/ ClaimLands(k) \/ latest_lease(k)
  BY <1>2 DEF Scan, ClaimLands, latest_lease, TypeOK
<1>3. CASE LaunchFails(k) \/ LaunchDenied(k) \/ LaunchTenant(k)
  BY <1>3 DEF LaunchFails, LaunchDenied, LaunchTenant, Abort, TypeOK
<1> QED
  BY <1>1, <1>2, <1>3 DEF Loop

(* A win is kept, ended, or made by a re-read of the claim that leads.         *)
LEMMA WonStep ==
  ASSUME TypeOK, [Next]_vars, NEW n \in Nodes, NEW a \in Agents, NEW t \in Term,
         NEW c \in Time, Won(n, a, t, c)'
  PROVE  \/ Won(n, a, t, c)
         \/ Leads(n, a, t, c) /\ now >= c + Settle /\ relay' = relay
<1> USE DEF Won, Hosted, Idle
<1>1. CASE launching'[n] = launching[n] /\ tenants'[n] = tenants[n]
  BY <1>1 DEF TypeOK
<1>2. ASSUME NEW b \in Agents, Die(n, b)
      PROVE  Won(n, a, t, c)
  <2>1. tenants'[n][a] # NoTenant =>
          /\ tenants[n][a] # NoTenant
          /\ tenants'[n][a].term = tenants[n][a].term
          /\ tenants'[n][a].claimed = tenants[n][a].claimed
    BY <1>2 DEF Die, Runs, TypeOK, Tenant
  <2> QED
    BY <1>2, <2>1 DEF Die
<1>3. CASE reap_dead(n)
  BY <1>3 DEF reap_dead, TypeOK
<1>4. CASE Scan(n)
  BY <1>4 DEF Scan, TypeOK
<1>5. CASE ClaimLands(n)
  BY <1>5 DEF ClaimLands, TypeOK, Launch
<1>6. CASE latest_lease(n)
  <2>1. CASE a \in Hosted(n) /\ tenants[n][a].term = t /\ tenants[n][a].claimed = c
    BY <2>1
  <2>2. CASE /\ launching'[n].agent = a /\ launching'[n].term = t
             /\ launching'[n].claimed = c
             /\ confirm_takeover_win(launching'[n].surviving, t, n)
    <3>1. PICK s \in {relay[launching[n].agent]} \cup {NoLease} :
            launching' = [launching EXCEPT ![n].stage = "judge", ![n].surviving = s]
      BY <1>6 DEF latest_lease
    <3>2. launching[n] \in Launch /\ launching[n].stage = "settle"
          /\ now >= launching[n].claimed + Settle /\ relay' = relay
      BY <1>6 DEF latest_lease, TypeOK
    <3>3. /\ launching'[n].surviving = s
          /\ launching[n].agent = a /\ launching[n].term = t /\ launching[n].claimed = c
      BY <2>2, <3>1, <3>2 DEF TypeOK, Launch
    <3>4. s = relay[a] /\ relay[a].holder = n /\ relay[a].term = t
      BY <2>2, <3>1, <3>3 DEF confirm_takeover_win
    <3> QED
      BY <1>6, <3>2, <3>3, <3>4 DEF Leads, latest_lease
  <2> QED
    BY <1>6, <2>1, <2>2 DEF latest_lease
<1>7. CASE LaunchFails(n) \/ LaunchDenied(n)
  BY <1>7 DEF LaunchFails, LaunchDenied, Abort, TypeOK
<1>8. CASE LaunchTenant(n)
  <2>1. launching[n].agent = a /\ tenants'[n][a].term = t /\ tenants'[n][a].claimed = c
          => launching[n].term = t /\ launching[n].claimed = c
    BY <1>8 DEF LaunchTenant, TypeOK
  <2>2. launching[n].agent # a => tenants'[n][a] = tenants[n][a]
    BY <1>8 DEF LaunchTenant, TypeOK
  <2>3. launching'[n] = NoLaunch
    BY <1>8 DEF LaunchTenant, TypeOK
  <2> QED
    BY <1>8, <2>1, <2>2, <2>3 DEF LaunchTenant
<1>9. CASE \E b \in Agents : heartbeat_lease(n, b) \/ observe_occupancy(n, b)
  BY <1>1, <1>9 DEF heartbeat_lease, observe_occupancy, nodeVars
<1>10. ASSUME NEW k \in Nodes, k # n, Loop(k) \/ \E b \in Agents : Die(k, b)
       PROVE  Won(n, a, t, c)
  BY <1>1, <1>10, OneLoopMoves DEF Die, TypeOK
<1>11. CASE Tick \/ UNCHANGED vars
  BY <1>1, <1>11 DEF Tick, vars, nodeVars
<1> QED
  BY <1>2, <1>3, <1>4, <1>5, <1>6, <1>7, <1>8, <1>9, <1>10, <1>11 DEF Next, Loop

(* Nobody but a claimer publishes its claim: what another node publishes takes *)
(* the lead away.                                                              *)
LEMMA LeadsStep ==
  ASSUME TypeOK, [Next]_vars, NEW n \in Nodes, NEW a \in Agents, NEW t \in Term,
         NEW c \in Time, Leads(n, a, t, c)'
  PROVE  Leads(n, a, t, c) \/ c = now
<1> USE DEF Leads, Idle
<1>1. ASSUME launching'[n] = launching[n], relay'[a] = relay[a]
      PROVE  Leads(n, a, t, c)
  BY <1>1
<1>2. ASSUME NEW k \in Nodes, Loop(k), k # n
      PROVE  Leads(n, a, t, c)
  <2>1. launching'[n] = launching[n]
    BY <1>2, OneLoopMoves
  <2>2. ASSUME NEW b \in Agents, NEW e \in Lease, e.holder = k, Publish(b, e)
        PROVE  relay'[a] = relay[a]
    <3>1. relay'[a] # relay[a] => relay'[a] = e
      BY <2>2 DEF Publish, TypeOK
    <3> QED
      BY <1>2, <2>2, <3>1
  <2>3. CASE \E b \in Agents : heartbeat_lease(k, b)
    <3>1. PICK b \in Agents : heartbeat_lease(k, b)
      BY <2>3
    <3> DEFINE e == [holder |-> k, term |-> tenants[k][b].term, issued |-> now]
    <3>2. e \in Lease /\ e.holder = k
      BY <3>1, LeasesAreTyped DEF heartbeat_lease, Beating, Runs, Hosted, TypeOK, Tenant
    <3> QED
      BY <1>1, <2>1, <2>2, <3>1, <3>2 DEF heartbeat_lease
  <2>4. CASE ClaimLands(k) \/ LaunchFails(k)
    <3> DEFINE e == [holder |-> k, term |-> launching[k].term, issued |-> launching[k].issued]
    <3>1. e \in Lease /\ e.holder = k /\ launching[k].agent \in Agents
      BY <2>4, LaunchTyped, LeasesAreTyped DEF ClaimLands, LaunchFails
    <3>2. Publish(launching[k].agent, e) \/ relay' = relay
      BY <2>4 DEF ClaimLands, LaunchFails
    <3> QED
      BY <1>1, <2>1, <2>2, <3>1, <3>2
  <2>5. CASE relay' = relay
    BY <1>1, <2>1, <2>5
  <2> QED
    BY <1>2, <2>3, <2>4, <2>5 DEF Loop, reap_dead, observe_occupancy, Scan, latest_lease,
      LaunchDenied, LaunchTenant
<1>3. CASE Loop(n)
  <2>1. CASE reap_dead(n) \/ \E b \in Agents : heartbeat_lease(n, b) \/ observe_occupancy(n, b)
    BY <2>1 DEF reap_dead, heartbeat_lease, observe_occupancy, nodeVars
  <2>2. CASE Scan(n)
    BY <2>2 DEF Scan, TypeOK
  <2>3. CASE ClaimLands(n)
    <3>1. launching'[n].claimed = now
      BY <2>3 DEF ClaimLands, TypeOK, Launch
    <3> QED
      BY <3>1
  <2>4. CASE latest_lease(n)
    <3>1. PICK s : launching' = [launching EXCEPT ![n].stage = "judge", ![n].surviving = s]
      BY <2>4 DEF latest_lease
    <3>2. launching'[n].stage = "judge"
      BY <2>4, <3>1 DEF latest_lease, TypeOK, Launch
    <3> QED
      BY <3>2
  <2>5. CASE LaunchFails(n) \/ LaunchDenied(n) \/ LaunchTenant(n)
    BY <2>5 DEF LaunchFails, LaunchDenied, LaunchTenant, Abort, TypeOK
  <2> QED
    BY <1>3, <2>1, <2>2, <2>3, <2>4, <2>5 DEF Loop
<1>4. CASE Tick \/ (\E k \in Nodes, b \in Agents : Die(k, b)) \/ UNCHANGED vars
  BY <1>1, <1>4 DEF Tick, Die, vars, nodeVars
<1> QED
  BY <1>2, <1>3, <1>4 DEF Next

LEMMA ClockForward == ASSUME TypeOK, [Next]_vars PROVE now \in Nat /\ now' \in Nat /\ now' >= now
<1>1. now' = now \/ now' = now + 1
  <2>1. ASSUME NEW n \in Nodes, Loop(n)
        PROVE  now' = now
    BY <2>1 DEF Loop, reap_dead, heartbeat_lease, observe_occupancy, Scan, ClaimLands,
      latest_lease, LaunchFails, LaunchDenied, LaunchTenant, Abort
  <2> QED
    BY <2>1 DEF Next, Tick, Die, vars
<1> QED
  BY <1>1, FleetLeaseAssumption DEF TypeOK, Time

LEMMA HomeFirstStep == ASSUME TypeOK, HomeFirst, [Next]_vars PROVE HomeFirst'
<1> USE DEF HomeFirst, Hosted, Idle
<1>1. ASSUME NEW n \in Nodes,
             launching'[n] = launching[n] \/ launching'[n] = NoLaunch,
             \A a \in Agents : tenants'[n][a] # NoTenant =>
               tenants[n][a] # NoTenant /\ tenants'[n][a].term = tenants[n][a].term
      PROVE  /\ \A a \in Agents : a \in Hosted(n)' /\ tenants'[n][a].term = 1 => n = Home[a]
             /\ ~Idle(n)' => launching'[n].term # 1
  BY <1>1
<1>2. ASSUME NEW n \in Nodes, Loop(n)
      PROVE  /\ \A a \in Agents : a \in Hosted(n)' /\ tenants'[n][a].term = 1 => n = Home[a]
             /\ ~Idle(n)' => launching'[n].term # 1
  <2>1. CASE reap_dead(n)
    BY <1>1, <2>1 DEF reap_dead, TypeOK
  <2>2. CASE \E b \in Agents : heartbeat_lease(n, b) \/ observe_occupancy(n, b)
    BY <1>1, <2>2 DEF heartbeat_lease, observe_occupancy, nodeVars
  <2>3. CASE Scan(n)
    <3>1. ASSUME NEW a \in Admissible(n)
          PROVE  observed[n][a].term + 1 # 1
      <4>1. a \in Agents /\ observed[n][a] \in Lease
        BY <3>1 DEF Admissible, detect_takeovers, Candidates, Seen, TypeOK
      <4> QED
        BY <4>1 DEF Lease, Term
    <3>2. ASSUME NEW a \in Admissible(n),
                 launching' = [launching EXCEPT ![n] =
                   [agent |-> a, term |-> observed[n][a].term + 1, issued |-> now,
                    stage |-> "claim", claimed |-> now, surviving |-> NoLease]]
          PROVE  launching'[n].term # 1
      BY <3>1, <3>2 DEF TypeOK
    <3>3. ~Idle(n)' => launching'[n].term # 1
      BY <2>3, <3>2 DEF Scan
    <3> QED
      BY <2>3, <3>3 DEF Scan
  <2>4. CASE ClaimLands(n)
    <3>1. launching'[n].term = launching[n].term /\ ~Idle(n)
      BY <2>4, LaunchTyped DEF ClaimLands, TypeOK, Launch
    <3> QED
      BY <2>4, <3>1 DEF ClaimLands
  <2>5. CASE latest_lease(n)
    <3>1. PICK s : launching' = [launching EXCEPT ![n].stage = "judge", ![n].surviving = s]
      BY <2>5 DEF latest_lease
    <3>2. launching'[n].term = launching[n].term /\ ~Idle(n)
      BY <2>5, <3>1, LaunchTyped DEF latest_lease, TypeOK, Launch
    <3> QED
      BY <2>5, <3>2 DEF latest_lease
  <2>6. CASE LaunchFails(n) \/ LaunchDenied(n)
    BY <1>1, <2>6 DEF LaunchFails, LaunchDenied, Abort, TypeOK
  <2>7. CASE LaunchTenant(n)
    <3>1. ASSUME NEW a \in Agents, launching[n].agent = a
          PROVE  tenants'[n][a].term # 1
      BY <2>7, <3>1 DEF LaunchTenant, TypeOK
    <3>2. ASSUME NEW a \in Agents, launching[n].agent # a
          PROVE  tenants'[n][a] = tenants[n][a]
      BY <2>7, <3>2 DEF LaunchTenant, TypeOK
    <3>3. launching'[n] = NoLaunch
      BY <2>7 DEF LaunchTenant, TypeOK
    <3> QED
      BY <3>1, <3>2, <3>3
  <2> QED
    BY <1>2, <2>1, <2>2, <2>3, <2>4, <2>5, <2>6, <2>7 DEF Loop
<1>3. ASSUME NEW k \in Nodes, Loop(k), NEW n \in Nodes, n # k
      PROVE  launching'[n] = launching[n] /\ tenants'[n] = tenants[n]
  BY <1>3, OneLoopMoves
<1>4. CASE \E k \in Nodes : Loop(k)
  BY <1>2, <1>3, <1>4
<1>5. ASSUME NEW k \in Nodes, NEW b \in Agents, Die(k, b)
      PROVE  HomeFirst'
  <2>1. \A n \in Nodes, a \in Agents : tenants'[n][a] # NoTenant =>
          tenants[n][a] # NoTenant /\ tenants'[n][a].term = tenants[n][a].term
    BY <1>5 DEF Die, Runs, TypeOK, Tenant
  <2> QED
    BY <1>5, <2>1 DEF Die
<1>6. CASE Tick \/ UNCHANGED vars
  BY <1>6 DEF Tick, vars, nodeVars
<1> QED
  BY <1>4, <1>5, <1>6 DEF Next

LEMMA RaceStep == ASSUME RaceInv, [Next]_vars PROVE RaceInv'
<1> USE DEF RaceInv
<1>0. Settle \in Nat
  BY FleetLeaseAssumption
<1>1. TypeOK' /\ HomeFirst'
  BY NextTyped, HomeFirstStep
<1>2. WonSettled'
  <2> SUFFICES ASSUME NEW n \in Nodes, NEW a \in Agents, NEW t \in Term, NEW c \in Time,
                      Won(n, a, t, c)', t # 1
               PROVE  now' >= c + Settle
    BY DEF WonSettled
  <2>1. now >= c + Settle
    BY WonStep DEF WonSettled
  <2> QED
    BY <1>0, <2>1, ClockForward DEF Time
<1>3. WinsApart'
  <2> SUFFICES ASSUME NEW n \in Nodes, NEW m \in Nodes, NEW a \in Agents, NEW t \in Term,
                      NEW c \in Time, NEW d \in Time, n # m, t # 1,
                      Won(n, a, t, c)', Won(m, a, t, d)'
               PROVE  d >= c + Settle \/ c >= d + Settle
    BY DEF WinsApart
  <2>1. Won(n, a, t, c) \/ Leads(n, a, t, c)
    BY WonStep
  <2>2. Won(m, a, t, d) \/ Leads(m, a, t, d)
    BY WonStep
  <2>3. ~(Leads(n, a, t, c) /\ Leads(m, a, t, d))
    BY DEF Leads
  <2> QED
    BY <2>1, <2>2, <2>3 DEF WinsApart, LeadsApart
<1>4. LeadsApart'
  <2> SUFFICES ASSUME NEW n \in Nodes, NEW m \in Nodes, NEW a \in Agents, NEW t \in Term,
                      NEW c \in Time, NEW d \in Time, n # m, t # 1,
                      Won(n, a, t, c)', Leads(m, a, t, d)'
               PROVE  d >= c + Settle
    BY DEF LeadsApart
  <2>1. Leads(m, a, t, d) \/ d = now
    BY LeadsStep
  <2>2. Won(n, a, t, c)
    BY WonStep DEF Leads
  <2> QED
    BY <2>1, <2>2 DEF LeadsApart, WonSettled
<1> QED
  BY <1>1, <1>2, <1>3, <1>4

(* The read-after-write fence, for any number of survivors and any delays of   *)
(* the relay: of two claims that race within the settling pause one is denied. *)
THEOREM RacesAreSettled == Spec => []RaceSettled
<1>1. Init => RaceInv
  <2> SUFFICES ASSUME Init PROVE RaceInv
    OBVIOUS
  <2>1. \A n \in Nodes : Idle(n)
    BY DEF Init, Idle
  <2>2. \A n \in Nodes, a \in Agents : a \in Hosted(n) => n = Home[a] /\ tenants[n][a].term = 1
    BY DEF Init, Hosted
  <2> QED
    BY <2>1, <2>2, InitTyped
    DEF RaceInv, HomeFirst, WonSettled, WinsApart, LeadsApart, Won, Leads
<1>2. RaceInv /\ [Next]_vars => RaceInv'
  BY RaceStep
<1>3. RaceInv => RaceSettled
  <2> SUFFICES ASSUME RaceInv, NEW n \in Nodes, NEW m \in Nodes, NEW a \in Agents, n # m,
                      a \in Hosted(n), a \in Hosted(m), tenants[n][a].term = tenants[m][a].term
               PROVE  \/ tenants[m][a].claimed >= tenants[n][a].claimed + Settle
                      \/ tenants[n][a].claimed >= tenants[m][a].claimed + Settle
    BY DEF RaceSettled
  <2> DEFINE t == tenants[n][a].term
             c == tenants[n][a].claimed
             d == tenants[m][a].claimed
  <2>1. t \in Term /\ c \in Time /\ d \in Time
    BY DEF RaceInv, TypeOK, Hosted, Tenant
  <2>2. t # 1
    BY DEF RaceInv, HomeFirst
  <2>3. Won(n, a, t, c) /\ Won(m, a, t, d)
    BY DEF Won
  <2> QED
    BY <2>1, <2>2, <2>3 DEF RaceInv, WinsApart
<1> QED
  BY <1>1, <1>2, <1>3, PTL DEF Spec
-----------------------------------------------------------------------------
(* Terms.  Nobody publishes in another's name, and what a node has seen of an  *)
(* agent bounds the terms it has claimed and the one it would claim next; so   *)
(* the claims of a node never go back, whatever order they arrive in.          *)
Claims(n, a) == {e \in relayed[a] : e.holder = n}

Known(n, a, t) == t = 1 \/ (observed[n][a] # NoLease /\ t <= observed[n][a].term + 1)

SeenRelayed ==
  \A n \in Nodes, a \in Agents : observed[n][a] # NoLease => observed[n][a] \in relayed[a]

ClaimsForward ==
  \A a \in Agents : \A e, f \in relayed[a] :
    e.holder = f.holder /\ e.issued > f.issued => e.term >= f.term

ClaimsPast == \A a \in Agents : \A e \in relayed[a] : e.issued <= now

ClaimsKnown == \A n \in Nodes, a \in Agents : \A e \in Claims(n, a) : Known(n, a, e.term)

TenantTops ==
  \A n \in Nodes : \A a \in Hosted(n) :
    /\ Known(n, a, tenants[n][a].term)
    /\ \A e \in Claims(n, a) : e.term <= tenants[n][a].term

LaunchTops ==
  \A n \in Nodes : ~Idle(n) =>
    LET l == launching[n] IN
    /\ observed[n][l.agent] # NoLease /\ l.term = observed[n][l.agent].term + 1
    /\ l.agent \notin Hosted(n) /\ l.issued <= now
    /\ \A e \in Claims(n, l.agent) : e.issued <= l.issued

TermsInv ==
  TypeOK /\ SeenRelayed /\ ClaimsForward /\ ClaimsPast /\ ClaimsKnown /\ TenantTops /\ LaunchTops

(* What a step publishes is a heartbeat of a tenant or the claim of a launch.  *)
Heartbeats(n, a, e) ==
  /\ a \in Hosted(n) /\ Idle(n)
  /\ e = [holder |-> n, term |-> tenants[n][a].term, issued |-> now]

LaunchClaims(n, a, e) ==
  /\ ~Idle(n) /\ launching[n].agent = a
  /\ e = [holder |-> n, term |-> launching[n].term, issued |-> launching[n].issued]

LEMMA RelayedStep ==
  ASSUME TypeOK, [Next]_vars, NEW a \in Agents
  PROVE  /\ relayed[a] \subseteq relayed'[a]
         /\ \A e \in relayed'[a] \ relayed[a] :
              /\ \E n \in Nodes : Heartbeats(n, a, e) \/ LaunchClaims(n, a, e)
              /\ UNCHANGED <<now, observed, tenants>>
<1>1. ASSUME NEW n \in Nodes, NEW b \in Agents, NEW e, Publish(b, e),
             Heartbeats(n, b, e) \/ LaunchClaims(n, b, e),
             UNCHANGED <<now, observed, tenants>>
      PROVE  /\ relayed[a] \subseteq relayed'[a]
             /\ \A f \in relayed'[a] \ relayed[a] :
                  /\ \E m \in Nodes : Heartbeats(m, a, f) \/ LaunchClaims(m, a, f)
                  /\ UNCHANGED <<now, observed, tenants>>
  <2>1. relayed[a] \subseteq relayed'[a] /\ \A f \in relayed'[a] \ relayed[a] : b = a /\ f = e
    BY <1>1 DEF Publish, TypeOK
  <2> QED
    BY <1>1, <2>1
<1>2. ASSUME NEW n \in Nodes, NEW b \in Agents, heartbeat_lease(n, b)
      PROVE  \E e : /\ Publish(b, e) /\ Heartbeats(n, b, e)
                    /\ UNCHANGED <<now, observed, tenants>>
  BY <1>2 DEF heartbeat_lease, Heartbeats, Beating, Runs, nodeVars
<1>3. ASSUME NEW n \in Nodes, ClaimLands(n)
      PROVE  \E b \in Agents : \E e : /\ Publish(b, e) /\ LaunchClaims(n, b, e)
                                  /\ UNCHANGED <<now, observed, tenants>>
  BY <1>3, LaunchTyped DEF ClaimLands, LaunchClaims
<1>4. ASSUME NEW n \in Nodes, LaunchFails(n)
      PROVE  \/ UNCHANGED relayed
             \/ \E b \in Agents : \E e : /\ Publish(b, e) /\ LaunchClaims(n, b, e)
                                     /\ UNCHANGED <<now, observed, tenants>>
  BY <1>4, LaunchTyped DEF LaunchFails, LaunchClaims, Abort
<1>5. CASE UNCHANGED relayed
  BY <1>5
<1> QED
  BY <1>1, <1>2, <1>3, <1>4, <1>5
  DEF Next, Loop, Tick, Die, reap_dead, observe_occupancy, Scan, latest_lease, LaunchDenied,
      LaunchTenant, vars

LEMMA ObservedStep ==
  ASSUME TypeOK, [Next]_vars, NEW n \in Nodes, NEW a \in Agents, observed'[n][a] # observed[n][a]
  PROVE  /\ observed'[n][a] \in relayed[a] /\ Accepts(observed[n][a], observed'[n][a])
         /\ Idle(n) /\ UNCHANGED <<now, relayed, tenants, launching>>
<1>1. ASSUME NEW m \in Nodes, NEW b \in Agents, observe_occupancy(m, b)
      PROVE  /\ observed'[n][a] \in relayed[a] /\ Accepts(observed[n][a], observed'[n][a])
             /\ Idle(n) /\ UNCHANGED <<now, relayed, tenants, launching>>
  <2>1. PICK e \in relayed[b] : /\ Accepts(observed[m][b], e)
                                /\ observed' = [observed EXCEPT ![m][b] = e]
    BY <1>1 DEF observe_occupancy
  <2>2. m = n /\ b = a /\ observed'[n][a] = e
    BY <2>1 DEF TypeOK
  <2> QED
    BY <1>1, <2>1, <2>2 DEF observe_occupancy
<1>2. observed' # observed
  OBVIOUS
<1> QED
  BY <1>1, <1>2
  DEF Next, Loop, Tick, Die, reap_dead, heartbeat_lease, Scan, ClaimLands, latest_lease,
      LaunchFails, LaunchDenied, LaunchTenant, Abort, vars, nodeVars

LEMMA LaunchStep ==
  ASSUME TypeOK, [Next]_vars, NEW n \in Nodes, ~Idle(n)'
  PROVE  \/ /\ ~Idle(n) /\ launching'[n].agent = launching[n].agent
            /\ launching'[n].term = launching[n].term
            /\ launching'[n].issued = launching[n].issued
         \/ /\ Idle(n) /\ Scan(n)
            /\ \E a \in Admissible(n) :
                 launching'[n] = [agent |-> a, term |-> observed[n][a].term + 1, issued |-> now,
                                  stage |-> "claim", claimed |-> now, surviving |-> NoLease]
<1> USE DEF Idle
<1>1. CASE launching'[n] = launching[n]
  BY <1>1
<1>2. CASE Scan(n)
  <2>1. ASSUME NEW a \in Admissible(n),
               launching' = [launching EXCEPT ![n] =
                 [agent |-> a, term |-> observed[n][a].term + 1, issued |-> now,
                  stage |-> "claim", claimed |-> now, surviving |-> NoLease]]
        PROVE  launching'[n] = [agent |-> a, term |-> observed[n][a].term + 1, issued |-> now,
                                stage |-> "claim", claimed |-> now, surviving |-> NoLease]
    BY <2>1 DEF TypeOK
  <2>2. Idle(n)
    BY <1>2 DEF Scan
  <2> QED
    BY <1>1, <1>2, <2>1, <2>2 DEF Scan
<1>3. CASE ClaimLands(n)
  BY <1>3, LaunchTyped DEF ClaimLands, TypeOK, Launch
<1>4. CASE latest_lease(n)
  <2>1. PICK s : launching' = [launching EXCEPT ![n].stage = "judge", ![n].surviving = s]
    BY <1>4 DEF latest_lease
  <2> QED
    BY <1>4, <2>1, LaunchTyped DEF latest_lease, TypeOK, Launch
<1>5. CASE LaunchFails(n) \/ LaunchDenied(n) \/ LaunchTenant(n)
  BY <1>5 DEF LaunchFails, LaunchDenied, LaunchTenant, Abort, TypeOK
<1>6. CASE reap_dead(n) \/ \E b \in Agents : heartbeat_lease(n, b) \/ observe_occupancy(n, b)
  BY <1>1, <1>6 DEF reap_dead, heartbeat_lease, observe_occupancy, nodeVars
<1>7. ASSUME NEW k \in Nodes, k # n, Loop(k)
      PROVE  launching'[n] = launching[n]
  BY <1>7, OneLoopMoves
<1>8. CASE Tick \/ (\E k \in Nodes, b \in Agents : Die(k, b)) \/ UNCHANGED vars
  BY <1>1, <1>8 DEF Tick, Die, vars, nodeVars
<1> QED
  BY <1>1, <1>2, <1>3, <1>4, <1>5, <1>6, <1>7, <1>8 DEF Next, Loop

LEMMA TenantStep ==
  ASSUME TypeOK, [Next]_vars, NEW n \in Nodes, NEW a \in Agents, a \in Hosted(n)'
  PROVE  \/ a \in Hosted(n) /\ tenants'[n][a].term = tenants[n][a].term
         \/ /\ ~Idle(n) /\ launching[n].agent = a /\ tenants'[n][a].term = launching[n].term
            /\ UNCHANGED <<now, relayed, observed>> /\ Idle(n)'
<1> USE DEF Hosted
<1>1. CASE tenants'[n] = tenants[n]
  BY <1>1
<1>2. ASSUME NEW k \in Nodes, NEW b \in Agents, Die(k, b)
      PROVE  a \in Hosted(n) /\ tenants'[n][a].term = tenants[n][a].term
  BY <1>2 DEF Die, Runs, TypeOK, Tenant
<1>3. CASE reap_dead(n)
  BY <1>3 DEF reap_dead, TypeOK
<1>4. CASE LaunchTenant(n)
  <2>1. launching[n].agent # a => tenants'[n][a] = tenants[n][a]
    BY <1>4 DEF LaunchTenant, TypeOK
  <2>2. launching[n].agent = a => tenants'[n][a].term = launching[n].term
    BY <1>4 DEF LaunchTenant, TypeOK
  <2>3. launching'[n] = NoLaunch
    BY <1>4 DEF LaunchTenant, TypeOK
  <2> QED
    BY <1>4, <2>1, <2>2, <2>3 DEF LaunchTenant, Idle
<1>5. CASE Loop(n) /\ ~reap_dead(n) /\ ~LaunchTenant(n)
  BY <1>1, <1>5 DEF Loop, heartbeat_lease, observe_occupancy, Scan, ClaimLands, latest_lease,
    LaunchFails, LaunchDenied, Abort, nodeVars
<1>6. ASSUME NEW k \in Nodes, k # n, Loop(k)
      PROVE  tenants'[n] = tenants[n]
  BY <1>6, OneLoopMoves
<1>7. CASE Tick \/ UNCHANGED vars
  BY <1>1, <1>7 DEF Tick, vars, nodeVars
<1> QED
  BY <1>1, <1>2, <1>3, <1>4, <1>5, <1>6, <1>7 DEF Next

(* What a node has seen only ever grows: by a newer term, or by a later claim  *)
(* of the same holder, which is never of an older term (ClaimsForward).        *)
LEMMA ObservedGrows ==
  ASSUME TermsInv, [Next]_vars, NEW n \in Nodes, NEW a \in Agents, observed[n][a] # NoLease
  PROVE  LET l == observed[n][a]  e == observed'[n][a] IN
         /\ e # NoLease /\ e.term >= l.term
         /\ e.term = l.term => e.holder = l.holder /\ e.issued >= l.issued
<1> DEFINE l == observed[n][a]
           e == observed'[n][a]
<1>1. l \in Lease /\ l \in relayed[a]
  BY DEF TermsInv, TypeOK, SeenRelayed
<1>2. CASE e = l
  BY <1>1, <1>2, FleetLeaseAssumption DEF Lease, Term, Time
<1>3. CASE e # l
  <2>1. e \in relayed[a] /\ Accepts(l, e) /\ e \in Lease
    BY <1>3, ObservedStep DEF TermsInv, TypeOK
  <2>2. e # NoLease
    BY <2>1, FleetLeaseAssumption
  <2>3. e.term > l.term \/ (e.holder = l.holder /\ e.issued > l.issued)
    BY <2>1 DEF Accepts
  <2>4. e.term > l.term \/ (e.holder = l.holder /\ e.issued > l.issued /\ e.term >= l.term)
    BY <1>1, <2>1, <2>3 DEF TermsInv, ClaimsForward
  <2> QED
    BY <1>1, <2>1, <2>2, <2>4 DEF Lease, Term, Time
<1> QED
  BY <1>2, <1>3

LEMMA KnownGrows ==
  ASSUME TermsInv, [Next]_vars, NEW n \in Nodes, NEW a \in Agents, NEW t \in Term, Known(n, a, t)
  PROVE  Known(n, a, t)'
<1>1. CASE t = 1
  BY <1>1 DEF Known
<1>2. CASE observed[n][a] # NoLease /\ t <= observed[n][a].term + 1
  <2>1. observed'[n][a] # NoLease /\ observed'[n][a].term >= observed[n][a].term
    BY <1>2, ObservedGrows
  <2>2. observed[n][a] \in Lease /\ observed'[n][a] \in Lease
    BY <1>2, <2>1, NextTyped DEF TermsInv, TypeOK
  <2> QED
    BY <1>2, <2>1, <2>2 DEF Known, Lease, Term
<1> QED
  BY <1>1, <1>2 DEF Known

(* A new claim is the latest and the highest of its node's.                    *)
LEMMA ClaimsStep ==
  ASSUME TermsInv, [Next]_vars, NEW a \in Agents, NEW e \in relayed'[a], e \notin relayed[a]
  PROVE  /\ UNCHANGED <<now, observed, tenants>>
         /\ e \in Lease /\ e.issued <= now /\ Known(e.holder, a, e.term)
         /\ a \in Hosted(e.holder) => e.term = tenants[e.holder][a].term
         /\ ~Idle(e.holder) /\ launching[e.holder].agent = a => e.issued = launching[e.holder].issued
         /\ \A f \in Claims(e.holder, a) :
              f.issued <= e.issued /\ (e.issued > f.issued => e.term >= f.term)
<1>1. PICK n \in Nodes : Heartbeats(n, a, e) \/ LaunchClaims(n, a, e)
  BY RelayedStep DEF TermsInv
<1>2. UNCHANGED <<now, observed, tenants>>
  BY RelayedStep DEF TermsInv
<1>3. e.holder = n
  BY <1>1 DEF Heartbeats, LaunchClaims
<1>4. \A f \in Claims(n, a) : f \in relayed[a] /\ f \in Lease /\ f.holder = n
  BY DEF Claims, TermsInv, TypeOK
<1>5. CASE Heartbeats(n, a, e)
  <2>1. tenants[n][a] \in Tenant /\ now \in Time /\ a \in Hosted(n) /\ Idle(n)
        /\ e.term = tenants[n][a].term /\ e.issued = now
    BY <1>5 DEF Heartbeats, Hosted, TermsInv, TypeOK
  <2>2. e \in Lease
    BY <1>5, <2>1 DEF Heartbeats, Lease, Tenant
  <2>3. Known(n, a, e.term) /\ \A f \in Claims(n, a) : f.term <= e.term /\ f.issued <= e.issued
    BY <1>4, <2>1 DEF TermsInv, TenantTops, ClaimsPast
  <2>4. e.issued <= now
    BY <2>1, <2>2 DEF Lease, Time
  <2> QED
    BY <1>2, <1>3, <2>1, <2>2, <2>3, <2>4
<1>6. CASE LaunchClaims(n, a, e)
  <2>1. ~Idle(n) /\ launching[n].agent = a /\ e.term = launching[n].term
        /\ e.issued = launching[n].issued
    BY <1>6 DEF LaunchClaims
  <2>2. e \in Lease /\ e.issued \in Time /\ e.term \in Term
    BY <1>6, <2>1, LaunchTyped DEF LaunchClaims, Lease, TermsInv
  <2>3. /\ observed[n][a] # NoLease /\ e.term = observed[n][a].term + 1
        /\ a \notin Hosted(n) /\ e.issued <= now
        /\ \A f \in Claims(n, a) : f.issued <= e.issued
    BY <2>1 DEF TermsInv, LaunchTops
  <2>4. observed[n][a].term \in Term
    BY <2>3 DEF TermsInv, TypeOK, Lease
  <2>5. \A f \in Claims(n, a) : f.term <= e.term
    <3> SUFFICES ASSUME NEW f \in Claims(n, a) PROVE f.term <= e.term
      OBVIOUS
    <3>1. Known(n, a, f.term)
      BY DEF TermsInv, ClaimsKnown
    <3> QED
      BY <1>4, <2>3, <2>4, <3>1 DEF Known, Term, Lease
  <2>6. Known(n, a, e.term)
    BY <2>3, <2>4 DEF Known, Term
  <2> QED
    BY <1>2, <1>3, <2>1, <2>2, <2>3, <2>5, <2>6
<1> QED
  BY <1>1, <1>5, <1>6

LEMMA TenantTopsStep == ASSUME TermsInv, [Next]_vars PROVE TenantTops'
<1> SUFFICES ASSUME NEW n \in Nodes, NEW a \in Agents, a \in Hosted(n)',
                    NEW t \in Term, t = tenants'[n][a].term
             PROVE  Known(n, a, t)' /\ \A e \in Claims(n, a)' : e.term <= t
  <2>1. \A n \in Nodes : \A a \in Hosted(n)' : tenants'[n][a].term \in Term
    BY NextTyped DEF TermsInv, TypeOK, Hosted, Tenant
  <2> QED
    BY <2>1 DEF TenantTops, Hosted, Known
<1>1. \A e \in Claims(n, a)' : e \in relayed'[a] /\ e.holder = n
  BY DEF Claims
<1>2. CASE a \in Hosted(n) /\ t = tenants[n][a].term
  <2>1. Known(n, a, t)'
    BY <1>2, KnownGrows DEF TermsInv, TenantTops
  <2>2. ASSUME NEW e \in Claims(n, a)' PROVE e.term <= t
    <3>1. CASE e \in relayed[a]
      BY <1>1, <1>2, <3>1 DEF TermsInv, TenantTops, Claims
    <3>2. CASE e \notin relayed[a]
      <4>1. e.term = tenants[n][a].term
        BY <1>1, <1>2, <3>2, ClaimsStep
      <4> QED
        BY <1>2, <4>1 DEF Term
    <3> QED
      BY <3>1, <3>2
  <2> QED
    BY <2>1, <2>2
<1>3. CASE /\ ~Idle(n) /\ launching[n].agent = a /\ t = launching[n].term
           /\ UNCHANGED <<now, relayed, observed>>
  <2>1. observed[n][a] # NoLease /\ t = observed[n][a].term + 1
    BY <1>3 DEF TermsInv, LaunchTops
  <2>2. observed[n][a].term \in Term
    BY <2>1 DEF TermsInv, TypeOK, Lease
  <2>3. Known(n, a, t)'
    BY <1>3, <2>1, <2>2 DEF Known, Term
  <2>4. ASSUME NEW e \in Claims(n, a)' PROVE e.term <= t
    <3>1. e \in Claims(n, a) /\ e \in Lease
      BY <1>3 DEF Claims, TermsInv, TypeOK
    <3>2. Known(n, a, e.term)
      BY <3>1 DEF TermsInv, ClaimsKnown
    <3> QED
      BY <2>1, <2>2, <3>1, <3>2 DEF Known, Term, Lease
  <2> QED
    BY <2>3, <2>4
<1> QED
  BY <1>2, <1>3, TenantStep DEF TermsInv

LEMMA LaunchTopsStep == ASSUME TermsInv, [Next]_vars PROVE LaunchTops'
<1> SUFFICES ASSUME NEW n \in Nodes, ~Idle(n)', NEW a \in Agents, a = launching'[n].agent,
                    NEW i \in Time, i = launching'[n].issued
             PROVE  /\ observed'[n][a] # NoLease
                    /\ launching'[n].term = observed'[n][a].term + 1
                    /\ a \notin Hosted(n)' /\ i <= now'
                    /\ \A e \in Claims(n, a)' : e.issued <= i
  <2>1. \A n \in Nodes : ~Idle(n)' =>
          launching'[n].agent \in Agents /\ launching'[n].issued \in Time
    BY NextTyped, FleetLeaseAssumption DEF TermsInv, TypeOK, Idle, Launch
  <2> QED
    BY <2>1 DEF LaunchTops, Idle, Hosted, Claims
<1>1. now \in Time /\ now' \in Nat /\ now' >= now
  BY ClockForward DEF TermsInv, TypeOK
<1>2. \A e \in Claims(n, a)' : e \in relayed'[a] /\ e.holder = n
  BY DEF Claims
<1>3. CASE /\ ~Idle(n) /\ a = launching[n].agent /\ i = launching[n].issued
           /\ launching'[n].term = launching[n].term
  <2>1. /\ observed[n][a] # NoLease /\ launching'[n].term = observed[n][a].term + 1
        /\ a \notin Hosted(n) /\ i <= now /\ \A e \in Claims(n, a) : e.issued <= i
    BY <1>3 DEF TermsInv, LaunchTops
  <2>2. observed'[n][a] = observed[n][a]
    BY <1>1, <1>3, ObservedStep DEF TermsInv
  <2>3. a \notin Hosted(n)'
    BY <1>1, <2>1, TenantStep DEF TermsInv
  <2>4. i <= now'
    BY <1>1, <2>1 DEF Time
  <2>5. ASSUME NEW e \in Claims(n, a)' PROVE e.issued <= i
    <3>1. CASE e \in relayed[a]
      BY <1>2, <2>1, <3>1 DEF Claims
    <3>2. CASE e \notin relayed[a]
      BY <1>1, <1>2, <1>3, <3>2, ClaimsStep DEF Time
    <3> QED
      BY <3>1, <3>2
  <2> QED
    BY <2>1, <2>2, <2>3, <2>4, <2>5
<1>4. CASE /\ Idle(n) /\ Scan(n)
           /\ \E b \in Admissible(n) :
                launching'[n] = [agent |-> b, term |-> observed[n][b].term + 1, issued |-> now,
                                 stage |-> "claim", claimed |-> now, surviving |-> NoLease]
  <2>1. a \in Admissible(n) /\ launching'[n].term = observed[n][a].term + 1 /\ i = now
    BY <1>4
  <2>2. observed[n][a] # NoLease /\ a \notin Hosted(n)
    BY <2>1 DEF Admissible, detect_takeovers, Candidates, Seen
  <2>3. UNCHANGED <<now, relayed, observed, tenants>>
    BY <1>4 DEF Scan
  <2>4. \A e \in Claims(n, a) : e.issued <= now
    BY <1>1 DEF Claims, TermsInv, ClaimsPast
  <2> QED
    BY <1>1, <2>1, <2>2, <2>3, <2>4 DEF Hosted, Claims, Time
<1> QED
  BY <1>3, <1>4, LaunchStep DEF TermsInv

LEMMA TermsStep == ASSUME TermsInv, [Next]_vars PROVE TermsInv'
<1>1. TypeOK'
  BY NextTyped DEF TermsInv
<1>2. SeenRelayed'
  <2> SUFFICES ASSUME NEW n \in Nodes, NEW a \in Agents, observed'[n][a] # NoLease
               PROVE  observed'[n][a] \in relayed'[a]
    BY DEF SeenRelayed
  <2>1. observed'[n][a] \in relayed[a]
    BY ObservedStep DEF TermsInv, SeenRelayed
  <2> QED
    BY <2>1, RelayedStep DEF TermsInv
<1>3. ClaimsForward'
  <2> SUFFICES ASSUME NEW a \in Agents, NEW e \in relayed'[a], NEW f \in relayed'[a],
                      e.holder = f.holder, e.issued > f.issued
               PROVE  e.term >= f.term
    BY DEF ClaimsForward
  <2>1. e \in Lease /\ f \in Lease
    BY <1>1 DEF TypeOK
  <2>2. CASE e \in relayed[a] /\ f \in relayed[a]
    BY <2>2 DEF TermsInv, ClaimsForward
  <2>3. CASE e \notin relayed[a] /\ f \in relayed[a]
    BY <2>3, ClaimsStep DEF Claims
  <2>4. CASE e \in relayed[a] /\ f \notin relayed[a]
    <3>1. e.issued <= f.issued
      BY <2>4, ClaimsStep DEF Claims
    <3> QED
      BY <2>1, <3>1 DEF Lease, Time
  <2>5. CASE e \notin relayed[a] /\ f \notin relayed[a]
    <3>1. PICK n \in Nodes : Heartbeats(n, a, e) \/ LaunchClaims(n, a, e)
      BY <2>5, RelayedStep DEF TermsInv
    <3>2. PICK m \in Nodes : Heartbeats(m, a, f) \/ LaunchClaims(m, a, f)
      BY <2>5, RelayedStep DEF TermsInv
    <3>3. n = m
      BY <3>1, <3>2 DEF Heartbeats, LaunchClaims
    <3>4. e = f
      BY <3>1, <3>2, <3>3 DEF Heartbeats, LaunchClaims
    <3> QED
      BY <2>1, <3>4 DEF Lease, Time
  <2> QED
    BY <2>2, <2>3, <2>4, <2>5
<1>4. ClaimsPast'
  <2> SUFFICES ASSUME NEW a \in Agents, NEW e \in relayed'[a] PROVE e.issued <= now'
    BY DEF ClaimsPast
  <2>1. e.issued <= now
    BY ClaimsStep DEF TermsInv, ClaimsPast
  <2>2. e.issued \in Time
    BY <1>1 DEF TypeOK, Lease
  <2> QED
    BY <2>1, <2>2, ClockForward DEF TermsInv, Time
<1>5. ClaimsKnown'
  <2> SUFFICES ASSUME NEW n \in Nodes, NEW a \in Agents, NEW e \in Claims(n, a)'
               PROVE  Known(n, a, e.term)'
    BY DEF ClaimsKnown, Claims
  <2>1. e \in relayed'[a] /\ e.holder = n /\ e.term \in Term
    BY <1>1 DEF Claims, TypeOK, Lease
  <2>2. Known(n, a, e.term)
    BY <2>1, ClaimsStep DEF TermsInv, ClaimsKnown, Claims
  <2> QED
    BY <2>1, <2>2, KnownGrows
<1> QED
  BY <1>1, <1>2, <1>3, <1>4, <1>5, TenantTopsStep, LaunchTopsStep DEF TermsInv

LEMMA TermsInit == ASSUME Init PROVE TermsInv
<1>1. \A a \in Agents : \A e \in relayed[a] : e.term = 1 /\ e.issued = 0
  BY DEF Init, FirstLease
<1>2. \A n \in Nodes : Idle(n) /\ \A a \in Agents : observed[n][a] = NoLease
  BY DEF Init, Idle
<1>3. \A n \in Nodes, a \in Agents : a \in Hosted(n) => tenants[n][a].term = 1
  BY DEF Init, Hosted
<1>4. now = 0
  BY DEF Init
<1>5. SeenRelayed /\ ClaimsForward /\ ClaimsPast /\ ClaimsKnown /\ TenantTops /\ LaunchTops
  BY <1>1, <1>2, <1>3, <1>4
  DEF SeenRelayed, ClaimsForward, ClaimsPast, ClaimsKnown, TenantTops, LaunchTops, Claims,
      Known, Hosted
<1> QED
  BY <1>5, InitTyped DEF TermsInv

(* What a node has seen of an agent never goes back, neither the term nor,     *)
(* within a term, the holder or the issue time, although observe_occupancy     *)
(* takes a later event of the same holder without a look at its term.          *)
THEOREM ObservedGoesForward == Spec => ObservedForward
<1> DEFINE Forward ==
      \A n \in Nodes, a \in Agents : observed[n][a] # NoLease =>
        LET l == observed[n][a]  e == observed'[n][a] IN
        /\ e # NoLease /\ e.term >= l.term
        /\ e.term = l.term => e.holder = l.holder /\ e.issued >= l.issued
<1>1. Init => TermsInv
  BY TermsInit
<1>2. TermsInv /\ [Next]_vars => TermsInv' /\ [Forward]_vars
  BY TermsStep, ObservedGrows
<1> QED
  BY <1>1, <1>2, PTL DEF Spec, ObservedForward

-----------------------------------------------------------------------------
(* The dwell.  A node counts how long its scans have seen a lease stale, and   *)
(* takes the agent over when that is the grace window.  What it counts from is *)
(* the present lease, if the loop has not been kept from a newer one so long   *)
(* that this is stale too when it is read.                                     *)

(* What a node has still to read about an agent is not stale yet, whatever     *)
(* launches kept its loop from reading it.                                     *)
FreshNews ==
  network = "timely" =>
    \A n \in Nodes, a \in Agents : Idle(n) /\ Uncontested(a) =>
      \A e \in relayed[a] : Accepts(observed[n][a], e) /\ e.holder # n => ~lease_is_stale(e)

(* A dwell began after the lease went stale, or ends with the next scan.       *)
Dwelt(n, a) ==
  LET l == observed[n][a]  g == grace_state[n][a] IN
  Uncontested(a) /\ g # Never =>
    /\ l # NoLease
    /\ l.holder # n => g > l.issued + TTL \/ (Idle(n) /\ ~lease_is_stale(l))

LaunchDwelt(n) ==
  ~Idle(n) =>
    LET a == launching[n].agent IN
    grace_state[n][a] # Never /\ launching[n].issued - grace_state[n][a] >= Grace

DwellInv ==
  network = "timely" => /\ \A n \in Nodes, a \in Agents : Dwelt(n, a)
                        /\ \A n \in Nodes : LaunchDwelt(n)

\* A dwell changes by a scan that sees something fresh.
LEMMA GraceStep ==
  ASSUME TypeOK, [Next]_vars, NEW n \in Nodes
  PROVE  \/ grace_state'[n] = grace_state[n]
         \/ Scan(n) /\ Sighted(n) /\ grace_state'[n] = KeepStale(n)
<1>1. ASSUME NEW m \in Nodes, Scan(m)
      PROVE  \/ grace_state'[n] = grace_state[n]
             \/ Scan(n) /\ Sighted(n) /\ grace_state'[n] = KeepStale(n)
  <2>1. grace_state' = [grace_state EXCEPT ![m] = IF Sighted(m) THEN KeepStale(m) ELSE @]
    BY <1>1 DEF Scan
  <2>2. CASE m = n
    BY <1>1, <2>1, <2>2 DEF TypeOK
  <2>3. CASE m # n
    BY <2>1, <2>3 DEF TypeOK
  <2> QED
    BY <2>2, <2>3
<1>2. CASE UNCHANGED grace_state
  BY <1>2
<1> QED
  BY <1>1, <1>2
  DEF Next, Loop, Tick, Die, reap_dead, heartbeat_lease, observe_occupancy, ClaimLands, latest_lease,
      LaunchFails, LaunchDenied, LaunchTenant, Abort, vars, nodeVars

LEMMA ClockStep ==
  ASSUME [Next]_vars
  PROVE  network' = network /\ (now' = now \/ Tick)
BY DEF Next, Loop, Tick, Die, reap_dead, heartbeat_lease, observe_occupancy, Scan, ClaimLands,
       latest_lease, LaunchFails, LaunchDenied, LaunchTenant, Abort, vars, nodeVars

\* What a scan leaves of a candidate's dwell.
LEMMA ScanDwell ==
  ASSUME TypeOK, NEW n \in Nodes, NEW a \in Agents
  PROVE  /\ KeepStale(n)[a] # Never => a \in Candidates(n) /\ KeepStale(n)[a] = FirstSeenStale(n, a)
         /\ a \in Candidates(n) => KeepStale(n)[a] = FirstSeenStale(n, a) /\ FirstSeenStale(n, a) # Never
<1>1. KeepStale(n)[a] = IF a \in Candidates(n) THEN FirstSeenStale(n, a) ELSE Never
  BY DEF KeepStale
<1>2. FirstSeenStale(n, a) # Never
  BY FleetLeaseAssumption DEF FirstSeenStale, TypeOK
<1> QED
  BY <1>1, <1>2

LEMMA DweltStep ==
  ASSUME TypeOK, TypeOK', [Next]_vars, network = "timely", FreshNews, NEW n \in Nodes, NEW a \in Agents,
         Dwelt(n, a), Uncontested(a)', grace_state'[n][a] # Never
  PROVE  LET l == observed'[n][a]  g == grace_state'[n][a] IN
         /\ l # NoLease
         /\ l.holder # n => g > l.issued + TTL \/ (Idle(n)' /\ ~(now' > l.issued + TTL))
<1> DEFINE l == observed[n][a]  m == observed'[n][a]  g == grace_state[n][a]  d == grace_state'[n][a]
<1>1. Uncontested(a)
  BY RelayedStep DEF Uncontested
<1>2. /\ now \in Nat /\ TTL \in Nat
      /\ g # Never => g \in Nat
      /\ l # NoLease => l.issued \in Nat
  BY FleetLeaseAssumption DEF TypeOK, Time, Lease
<1>3. CASE Scan(n)
  <2>1. Idle(n) /\ m = l /\ now' = now
    BY <1>3 DEF Scan
  <2>2. CASE d = g /\ ~Sighted(n)
    <3>1. l # NoLease /\ (l.holder # n => g > l.issued + TTL \/ ~lease_is_stale(l))
      BY <1>1, <2>2 DEF Dwelt
    <3>2. lease_is_stale(l)
      BY <2>2, <3>1 DEF Sighted, Seen
    <3> QED
      BY <2>1, <2>2, <3>1, <3>2 DEF lease_is_stale
  <2>3. CASE Sighted(n)
    <3>1. d = KeepStale(n)[a]
      BY <1>3, <2>3 DEF Scan, TypeOK
    <3>2. a \in Candidates(n) /\ d = FirstSeenStale(n, a)
      BY <3>1, ScanDwell
    <3>3. l # NoLease /\ now > l.issued + TTL
      BY <3>2 DEF Candidates, Seen, lease_is_stale
    <3>4. g = Never => d = now
      BY <3>2 DEF FirstSeenStale
    <3>5. g # Never => d = g /\ (l.holder # n => g > l.issued + TTL)
      BY <1>1, <3>2, <3>3 DEF FirstSeenStale, Dwelt, lease_is_stale
    <3> QED
      BY <2>1, <3>3, <3>4, <3>5
  <2> QED
    BY <1>3, <2>2, <2>3 DEF Scan, TypeOK
<1>4. CASE ~Scan(n)
  <2>1. d = g
    BY <1>4, GraceStep
  <2>2. CASE m # l
    <3>1. m \in relayed[a] /\ Accepts(l, m) /\ Idle(n) /\ now' = now /\ launching' = launching
      BY <2>2, ObservedStep
    <3>2. m # NoLease /\ Idle(n)'
      BY <3>1, FleetLeaseAssumption DEF TypeOK, Idle
    <3>3. m.holder # n => ~lease_is_stale(m)
      BY <1>1, <3>1 DEF FreshNews
    <3> QED
      BY <3>1, <3>2, <3>3 DEF lease_is_stale
  <2>3. CASE m = l
    <3>1. l # NoLease /\ (l.holder # n => g > l.issued + TTL \/ (Idle(n) /\ ~lease_is_stale(l)))
      BY <1>1, <2>1 DEF Dwelt
    <3>2. CASE l.holder # n => g > l.issued + TTL
      BY <2>1, <2>3, <3>1, <3>2
    <3>3. CASE Idle(n) /\ ~lease_is_stale(l)
      <4>1. Idle(n)'
        BY <1>4, <3>3, LaunchStep
      <4>2. CASE now' = now
        BY <2>3, <3>1, <3>3, <4>1, <4>2 DEF lease_is_stale
      <4>3. CASE Tick
        <5>1. Sighted(n) /\ a \notin Candidates(n)
          BY <3>1, <3>3 DEF Sighted, Seen, Candidates
        <5>2. grace_state[n] = KeepStale(n)
          BY <3>3, <4>3, <5>1 DEF Tick, Overdue
        <5> QED
          BY <2>1, <5>1, <5>2, ScanDwell
      <4> QED
        BY <4>2, <4>3, ClockStep
    <3> QED
      BY <3>1, <3>2, <3>3
  <2> QED
    BY <2>2, <2>3
<1> QED
  BY <1>3, <1>4

LEMMA LaunchDweltStep ==
  ASSUME TypeOK, TypeOK', [Next]_vars, NEW n \in Nodes, LaunchDwelt(n), ~Idle(n)'
  PROVE  LET a == launching'[n].agent IN
         grace_state'[n][a] # Never /\ launching'[n].issued - grace_state'[n][a] >= Grace
<1>1. CASE /\ ~Idle(n) /\ launching'[n].agent = launching[n].agent
           /\ launching'[n].issued = launching[n].issued
  <2>1. grace_state'[n] = grace_state[n]
    BY <1>1, GraceStep DEF Scan
  <2> QED
    BY <1>1, <2>1 DEF LaunchDwelt
<1>2. ASSUME Scan(n), NEW a \in Admissible(n),
             launching'[n] = [agent |-> a, term |-> observed[n][a].term + 1, issued |-> now,
                              stage |-> "claim", claimed |-> now, surviving |-> NoLease]
      PROVE  /\ launching'[n].agent = a /\ launching'[n].issued = now
             /\ grace_state'[n][a] # Never /\ now - grace_state'[n][a] >= Grace
  <2>1. a \in Candidates(n) /\ Sighted(n) /\ now - FirstSeenStale(n, a) >= Grace /\ a \in Agents
    BY <1>2 DEF Admissible, detect_takeovers, Candidates, Seen
  <2>2. grace_state'[n] = KeepStale(n)
    BY <1>2, <2>1 DEF Scan, TypeOK
  <2> QED
    BY <1>2, <2>1, <2>2, ScanDwell
<1> QED
  BY <1>1, <1>2, LaunchStep

LEMMA DwellStep ==
  ASSUME TypeOK, TypeOK', [Next]_vars, FreshNews, DwellInv
  PROVE  DwellInv'
<1> SUFFICES ASSUME network' = "timely"
             PROVE  /\ \A n \in Nodes, a \in Agents : Dwelt(n, a)'
                    /\ \A n \in Nodes : LaunchDwelt(n)'
  BY DEF DwellInv
<1>1. network = "timely"
  BY ClockStep
<1>2. ASSUME NEW n \in Nodes, NEW a \in Agents PROVE Dwelt(n, a)'
  BY <1>1, DweltStep DEF DwellInv, Dwelt, lease_is_stale
<1>3. ASSUME NEW n \in Nodes PROVE LaunchDwelt(n)'
  BY <1>1, LaunchDweltStep DEF DwellInv, LaunchDwelt
<1> QED
  BY <1>2, <1>3

LEMMA DwellWaits ==
  ASSUME TypeOK, DwellInv
  PROVE  TakeoverWaits
<1> SUFFICES ASSUME NEW n \in Nodes, network = "timely", ~Idle(n), Uncontested(launching[n].agent),
                    observed[n][launching[n].agent].holder # n
             PROVE  launching[n].issued > observed[n][launching[n].agent].issued + TTL + Grace
  BY DEF TakeoverWaits
<1> DEFINE a == launching[n].agent  l == observed[n][a]  g == grace_state[n][a]
<1>1. a \in Agents /\ launching[n].issued \in Nat
  BY LaunchTyped, FleetLeaseAssumption DEF Time
<1>2. g # Never /\ launching[n].issued - g >= Grace
  BY DEF DwellInv, LaunchDwelt
<1>3. l # NoLease /\ g > l.issued + TTL
  BY <1>1, <1>2 DEF DwellInv, Dwelt
<1>4. g \in Nat /\ l.issued \in Nat /\ TTL \in Nat /\ Grace \in Nat
  BY <1>1, <1>2, <1>3, FleetLeaseAssumption DEF TypeOK, Time, Lease
<1> HIDE DEF a, l, g
<1>5. launching[n].issued > l.issued + TTL + Grace
  BY <1>1, <1>2, <1>3, <1>4
<1> QED
  BY <1>5 DEF a, l

(* A takeover waits (grace_state, threaded across the scans of the control     *)
(* loop): on a timely network a node claims an uncontested lease of another    *)
(* only when it has been stale for the whole grace window, as long as no       *)
(* launch keeps the node from reading an event until that is stale itself.     *)
THEOREM TakeoversWait == Spec /\ []FreshNews => []TakeoverWaits
<1>1. Init => DwellInv
  BY DEF Init, DwellInv, Dwelt, LaunchDwelt, Idle
<1>2. TypeOK /\ TypeOK' /\ DwellInv /\ FreshNews /\ [Next]_vars => DwellInv'
  BY DwellStep
<1>3. TypeOK /\ DwellInv => TakeoverWaits
  BY DwellWaits
<1> QED
  BY <1>1, <1>2, <1>3, LeaseTypesSafe, PTL DEF Spec

-----------------------------------------------------------------------------
(* One host.  The fence of a launch looks at rivals of its own term; that no   *)
(* older host is still there rests on what the claimant has read before it     *)
(* claimed, and on how often a host is heard of.                               *)

(* A node that takes an agent over has read of it what is as old as the pause  *)
(* in which it lets rivals be heard, whatever its loop was doing before.       *)
NewsBeforeTakeover ==
  network = "timely" =>
    \A n \in Nodes : Idle(n) => \A a \in Admissible(n) : Uncontested(a) =>
      \A e \in relayed[a] : Accepts(observed[n][a], e) => now < e.issued + Settle

Owns(n, a, t) == {e \in relayed[a] : e.holder = n /\ e.term = t}
Beats(n, a) == Owns(n, a, tenants[n][a].term)

(* An agent that others could take over is heartbeaten at intervals that leave *)
(* the pause before its lease goes stale, whatever launches its host makes.    *)
SteadyBeats ==
  network = "timely" =>
    \A n, m \in Nodes, a \in Agents : n # m /\ Runs(m, a) /\ a \in Keystores[n] =>
      \A e \in Beats(m, a) : now + Settle > e.issued + TTL + 1 =>
        \E f \in Beats(m, a) : e.issued < f.issued /\ f.issued + Settle <= e.issued + TTL + 1

\* Where a launch stands in time, and what its node knew when it began.
LaunchTimes(n) ==
  ~Idle(n) =>
    LET l == launching[n]  o == observed[n][l.agent] IN
    /\ l.agent \in Keystores[n] /\ l.claimed = l.issued /\ o.issued + TTL < l.issued
    /\ l.stage = "claim" => now = l.issued
    /\ now <= l.issued + Settle
    /\ l.stage = "judge" =>
         now >= l.issued + Settle /\ (l.surviving # NoLease => l.surviving \in relayed[l.agent])

LaunchKnew(n) ==
  ~Idle(n) =>
    LET l == launching[n]  o == observed[n][l.agent] IN
    Uncontested(l.agent) =>
      /\ \A e \in relayed[l.agent] : Accepts(o, e) => l.issued < e.issued + Settle
      /\ \A e \in Owns(n, l.agent, l.term) : e.issued = l.issued

\* A term is claimed of a lease that is stale.
Succeeds ==
  \A a \in Agents : \A e \in relayed[a] : e.term > 1 =>
    \E f \in relayed[a] : f.term = e.term - 1 /\ f.issued + TTL < e.issued

\* What a node publishes began with a claim that has seen its pause, or has it now.
OwnsAged ==
  \A n \in Nodes, a \in Agents : Uncontested(a) =>
    \A e \in relayed[a] : e.holder = n /\ e.term > 1 =>
      \/ \E f \in Owns(n, a, e.term) : f.issued + Settle <= now
      \/ ~Idle(n) /\ launching[n].agent = a /\ launching[n].term = e.term

KeptIsRelayed == \A a \in Agents : relay[a] \in relayed[a]

HostedIsClaimed == \A n \in Nodes : \A a \in Hosted(n) : Beats(n, a) # {}

\* Who runs an agent at a term, or has claimed it and waits.
Contends(n, a, t) ==
  \/ Runs(n, a) /\ tenants[n][a].term = t
  \/ ~Idle(n) /\ launching[n].agent = a /\ launching[n].term = t /\ Owns(n, a, t) # {}

ContenderIsTop ==
  \A n \in Nodes, a \in Agents, t \in Term :
    Uncontested(a) /\ Contends(n, a, t) => \A e \in relayed[a] : e.term <= t

HouseInv ==
  network = "timely" =>
    /\ \A n \in Nodes : LaunchTimes(n) /\ LaunchKnew(n)
    /\ Succeeds /\ OwnsAged /\ KeptIsRelayed /\ HostedIsClaimed /\ ContenderIsTop

\* The delays that the argument needs: a pause, and one that ends before a TTL.
PauseFits == Settle >= 1 /\ Settle <= TTL

LEMMA TimelyStep ==
  ASSUME TypeOK, [Next]_vars, network = "timely"
  PROVE  \/ UNCHANGED <<relay, relayed>>
         \/ \E n \in Nodes : ClaimLands(n) \/ \E a \in Agents : heartbeat_lease(n, a)
BY DEF Next, Loop, Tick, Die, reap_dead, observe_occupancy, Scan, latest_lease, LaunchFails,
       LaunchDenied, LaunchTenant, nodeVars, vars

LEMMA PublishedNew ==
  ASSUME TypeOK, NEW b \in Agents, NEW f, Publish(b, f), NEW a \in Agents,
         NEW e \in relayed'[a], e \notin relayed[a]
  PROVE  b = a /\ e = f
BY DEF Publish, TypeOK

\* What is new on the relay is of this second: a beat of a tenant, or a claim.
LEMMA TimedEvent ==
  ASSUME TermsInv, \A n \in Nodes : LaunchTimes(n), [Next]_vars, network = "timely", NEW a \in Agents,
         NEW e \in relayed'[a], e \notin relayed[a]
  PROVE  /\ UNCHANGED <<now, observed, tenants>> /\ e \in Lease /\ e.issued = now
         /\ \/ /\ Idle(e.holder) /\ a \in Hosted(e.holder) /\ UNCHANGED launching
               /\ e.term = tenants[e.holder][a].term
            \/ /\ ClaimLands(e.holder) /\ launching[e.holder].agent = a
               /\ e.term = launching[e.holder].term
<1>1. ASSUME NEW n \in Nodes, NEW b \in Agents, heartbeat_lease(n, b)
      PROVE  /\ UNCHANGED <<now, observed, tenants, launching>> /\ e.issued = now
             /\ Idle(n) /\ a \in Hosted(n) /\ e.holder = n /\ e.term = tenants[n][a].term
  <2>1. b = a /\ e = [holder |-> n, term |-> tenants[n][b].term, issued |-> now]
    BY <1>1, PublishedNew DEF heartbeat_lease, TermsInv
  <2> QED
    BY <1>1, <2>1 DEF heartbeat_lease, Beating, Runs, nodeVars
<1>2. ASSUME NEW n \in Nodes, ClaimLands(n)
      PROVE  /\ UNCHANGED <<now, observed, tenants>> /\ e.issued = now
             /\ e.holder = n /\ launching[n].agent = a /\ e.term = launching[n].term
  <2>1. launching[n].agent = a
        /\ e = [holder |-> n, term |-> launching[n].term, issued |-> launching[n].issued]
    BY <1>2, LaunchTyped, PublishedNew DEF ClaimLands, TermsInv
  <2>2. launching[n].issued = now
    BY <1>2 DEF LaunchTimes, ClaimLands
  <2> QED
    BY <1>2, <2>1, <2>2 DEF ClaimLands
<1>3. e \in Lease
  BY NextTyped DEF TermsInv, TypeOK
<1>4. relayed' # relayed
  OBVIOUS
<1> QED
  BY <1>1, <1>2, <1>3, <1>4, TimelyStep DEF TermsInv

LEMMA NewEvent ==
  ASSUME TermsInv, HouseInv, [Next]_vars, network = "timely", NEW a \in Agents,
         NEW e \in relayed'[a], e \notin relayed[a]
  PROVE  /\ UNCHANGED <<now, observed, tenants>> /\ e \in Lease /\ e.issued = now
         /\ \/ /\ Idle(e.holder) /\ a \in Hosted(e.holder) /\ UNCHANGED launching
               /\ e.term = tenants[e.holder][a].term
            \/ /\ ClaimLands(e.holder) /\ launching[e.holder].agent = a
               /\ e.term = launching[e.holder].term
BY TimedEvent DEF HouseInv

LEMMA RelayedGrows ==
  ASSUME TypeOK, [Next]_vars, NEW a \in Agents
  PROVE  relayed[a] \subseteq relayed'[a] /\ (Uncontested(a)' => Uncontested(a))
BY RelayedStep DEF Uncontested

LEMMA KeptStep ==
  ASSUME TypeOK, KeptIsRelayed, [Next]_vars, network = "timely"
  PROVE  KeptIsRelayed'
<1>1. ASSUME NEW b \in Agents, NEW e, Publish(b, e)
      PROVE  KeptIsRelayed'
  BY <1>1 DEF Publish, KeptIsRelayed, TypeOK
<1>2. ASSUME NEW n \in Nodes, ClaimLands(n)
      PROVE  \E b \in Agents : \E e : Publish(b, e)
  BY <1>2, LaunchTyped DEF ClaimLands
<1>3. ASSUME NEW n \in Nodes, NEW b \in Agents, heartbeat_lease(n, b)
      PROVE  \E e : Publish(b, e)
  BY <1>3 DEF heartbeat_lease
<1>4. CASE UNCHANGED <<relay, relayed>>
  BY <1>4 DEF KeptIsRelayed
<1> QED
  BY <1>1, <1>2, <1>3, <1>4, TimelyStep

\* A scan that admits a takeover finds no claim of its own at the term it will claim.
LEMMA NothingOwned ==
  ASSUME TermsInv, HouseInv, NewsBeforeTakeover, network = "timely", Settle \in Nat,
         NEW n \in Nodes, Idle(n), NEW a \in Admissible(n), Uncontested(a)
  PROVE  Owns(n, a, observed[n][a].term + 1) = {}
<1> DEFINE o == observed[n][a]
<1>1. a \in Agents /\ o \in Lease
  BY DEF Admissible, detect_takeovers, Candidates, Seen, TermsInv, TypeOK
<1> SUFFICES ASSUME NEW e \in relayed[a], e.holder = n, e.term = o.term + 1
             PROVE  FALSE
  BY DEF Owns
<1>2. e \in Lease /\ e.term > 1 /\ o.term \in Nat
  BY <1>1 DEF TermsInv, TypeOK, Lease, Term
<1>3. PICK f \in Owns(n, a, e.term) : f.issued + Settle <= now
  BY <1>1, <1>2 DEF HouseInv, OwnsAged
<1>4. f \in relayed[a] /\ f.term > o.term /\ f \in Lease
  BY <1>1, <1>2, <1>3 DEF Owns, TermsInv, TypeOK
<1>5. now < f.issued + Settle
  BY <1>1, <1>4 DEF NewsBeforeTakeover, Accepts
<1> QED
  BY <1>3, <1>4, <1>5 DEF Lease, Time, TermsInv, TypeOK

\* A launch that goes on, waits, lands its claim, or reads the relay again.
LEMMA LaunchGoesOn ==
  ASSUME TypeOK, [Next]_vars, network = "timely", NEW n \in Nodes, ~Idle(n), ~Idle(n)'
  PROVE  /\ observed'[n] = observed[n]
         /\ launching'[n].agent = launching[n].agent /\ launching'[n].term = launching[n].term
         /\ launching'[n].issued = launching[n].issued
         /\ \/ launching'[n] = launching[n] /\ (now' = now \/ Tick)
            \/ ClaimLands(n) /\ launching'[n].stage = "settle" /\ launching'[n].claimed = now
            \/ /\ latest_lease(n) /\ launching'[n].stage = "judge"
               /\ launching'[n].claimed = launching[n].claimed
               /\ launching'[n].surviving = relay[launching[n].agent]
<1> USE DEF Idle
<1>1. observed'[n] = observed[n]
  <2>1. \A a \in Agents : observed'[n][a] = observed[n][a]
    BY ObservedStep
  <2> QED
    BY <2>1, NextTyped DEF TypeOK
<1>2. CASE ClaimLands(n)
  BY <1>1, <1>2, LaunchTyped DEF ClaimLands, TypeOK, Launch
<1>3. CASE latest_lease(n)
  <2>1. launching' = [launching EXCEPT ![n].stage = "judge", ![n].surviving = relay[launching[n].agent]]
    BY <1>3 DEF latest_lease
  <2> QED
    BY <1>1, <1>3, <2>1, LaunchTyped DEF TypeOK, Launch
<1>4. CASE LaunchFails(n) \/ LaunchDenied(n) \/ LaunchTenant(n)
  BY <1>4 DEF LaunchFails, LaunchDenied, LaunchTenant, Abort, TypeOK
<1>5. CASE launching'[n] = launching[n]
  BY <1>1, <1>5, ClockStep
<1>6. ASSUME NEW k \in Nodes, k # n, Loop(k)
      PROVE  launching'[n] = launching[n]
  BY <1>6, OneLoopMoves
<1>7. CASE Tick \/ (\E k \in Nodes, b \in Agents : Die(k, b)) \/ UNCHANGED vars
  BY <1>5, <1>7 DEF Tick, Die, vars, nodeVars
<1>8. CASE reap_dead(n) \/ Scan(n) \/ \E b \in Agents : heartbeat_lease(n, b) \/ observe_occupancy(n, b)
  BY <1>8 DEF reap_dead, Scan, heartbeat_lease, observe_occupancy
<1> QED
  BY <1>2, <1>3, <1>4, <1>5, <1>6, <1>7, <1>8 DEF Next, Loop

LEMMA LaunchTimesStep ==
  ASSUME TermsInv, KeptIsRelayed, [Next]_vars, network = "timely", NEW n \in Nodes, LaunchTimes(n)
  PROVE  LaunchTimes(n)'
<1> SUFFICES ASSUME ~Idle(n)' PROVE LaunchTimes(n)'
  BY DEF LaunchTimes
<1> DEFINE l == launching[n]
           k == launching'[n]
<1>0. TypeOK /\ TypeOK' /\ Settle \in Nat /\ TTL \in Nat /\ now \in Nat /\ now' \in Nat
  BY NextTyped, FleetLeaseAssumption DEF TermsInv, TypeOK, Time
<1>1. CASE ~Idle(n)
  <2>1. /\ l.agent \in Agents /\ l.issued \in Nat /\ l.claimed \in Nat /\ l.stage \in Stages
        /\ k.claimed \in Nat
    BY <1>0, <1>1, LaunchTyped DEF Launch, Time, TypeOK, Idle
  <2>2. /\ observed'[n] = observed[n] /\ k.agent = l.agent /\ k.issued = l.issued
    BY <1>0, <1>1, LaunchGoesOn
  <2>3. /\ l.agent \in Keystores[n] /\ l.claimed = l.issued
        /\ observed[n][l.agent].issued + TTL < l.issued
        /\ l.stage = "claim" => now = l.issued
        /\ now <= l.issued + Settle
        /\ l.stage = "judge" =>
             now >= l.issued + Settle /\ (l.surviving # NoLease => l.surviving \in relayed[l.agent])
    BY <1>1 DEF LaunchTimes
  <2>4. relayed[l.agent] \subseteq relayed'[l.agent] /\ relay[l.agent] \in relayed[l.agent]
    BY <1>0, <2>1, RelayedGrows DEF KeptIsRelayed
  <2>5. CASE k = l /\ now' = now
    BY <2>2, <2>3, <2>4, <2>5 DEF LaunchTimes
  <2>6. CASE k = l /\ Tick
    <3>1. ~Overdue(n) /\ now' = now + 1
      BY <2>6 DEF Tick
    <3>2. l.stage = "settle" /\ now < l.claimed + Settle
      BY <1>0, <1>1, <2>1, <3>1 DEF Overdue
    <3> QED
      BY <1>0, <2>1, <2>2, <2>3, <2>6, <3>1, <3>2 DEF LaunchTimes
  <2>7. CASE ClaimLands(n) /\ k.stage = "settle" /\ k.claimed = now
    BY <1>0, <2>1, <2>2, <2>3, <2>7 DEF LaunchTimes, ClaimLands
  <2>8. CASE latest_lease(n) /\ k.stage = "judge" /\ k.claimed = l.claimed /\ k.surviving = relay[l.agent]
    BY <1>0, <2>1, <2>2, <2>3, <2>4, <2>8 DEF LaunchTimes, latest_lease
  <2> QED
    BY <1>0, <1>1, <2>5, <2>6, <2>7, <2>8, LaunchGoesOn
<1>2. CASE Idle(n)
  <2>1. Scan(n)
    BY <1>0, <1>2, LaunchStep
  <2>2. PICK a \in Admissible(n) :
          k = [agent |-> a, term |-> observed[n][a].term + 1, issued |-> now,
               stage |-> "claim", claimed |-> now, surviving |-> NoLease]
    BY <1>0, <1>2, LaunchStep
  <2>3. a \in Keystores[n] /\ now > observed[n][a].issued + TTL
    BY DEF Admissible, Admitted, detect_takeovers, Candidates, lease_is_stale
  <2> QED
    BY <1>0, <2>1, <2>2, <2>3 DEF LaunchTimes, Scan
<1> QED
  BY <1>1, <1>2

LEMMA LaunchKnewStep ==
  ASSUME TermsInv, HouseInv, NewsBeforeTakeover, [Next]_vars, network = "timely", PauseFits,
         NEW n \in Nodes
  PROVE  LaunchKnew(n)'
<1> SUFFICES ASSUME ~Idle(n)' PROVE LaunchKnew(n)'
  BY DEF LaunchKnew
<1> DEFINE l == launching[n]
           k == launching'[n]
<1>0. TypeOK /\ TypeOK' /\ Settle \in Nat /\ TTL \in Nat /\ now \in Nat /\ now' \in Nat
  BY NextTyped, FleetLeaseAssumption DEF TermsInv, TypeOK, Time
<1>1. CASE ~Idle(n)
  <2>1. l.agent \in Agents /\ l.issued \in Nat
    BY <1>0, <1>1, LaunchTyped DEF Time
  <2>2. observed'[n] = observed[n] /\ k.agent = l.agent /\ k.term = l.term /\ k.issued = l.issued
    BY <1>0, <1>1, LaunchGoesOn
  <2> SUFFICES ASSUME NEW b \in Agents, b = l.agent, Uncontested(b)'
               PROVE  /\ \A e \in relayed'[b] :
                           Accepts(observed[n][b], e) => l.issued < e.issued + Settle
                      /\ \A e \in relayed'[b] : e.holder = n /\ e.term = l.term => e.issued = l.issued
    BY <2>1, <2>2 DEF LaunchKnew, Accepts, Owns, Uncontested
  <2>3. /\ \A e \in relayed[b] :
             Accepts(observed[n][b], e) => l.issued < e.issued + Settle
        /\ \A e \in relayed[b] : e.holder = n /\ e.term = l.term => e.issued = l.issued
    <3>1. Uncontested(b)
      BY <1>0, <2>1, RelayedGrows
    <3> QED
      BY <1>1, <3>1 DEF HouseInv, LaunchKnew, Owns
  <2>4. ASSUME NEW e \in relayed'[b], e \notin relayed[b]
        PROVE  e.issued = now /\ (e.holder = n => now = l.issued) /\ l.issued <= now
    <3>1. e.issued = now /\ (e.holder = n => ClaimLands(n))
      BY <1>1, <2>1, <2>4, NewEvent
    <3> QED
      BY <1>1, <3>1 DEF HouseInv, LaunchTimes, ClaimLands, TermsInv, LaunchTops
  <2> QED
    BY <1>0, <2>1, <2>3, <2>4 DEF PauseFits
<1>2. CASE Idle(n)
  <2>1. Scan(n)
    BY <1>0, <1>2, LaunchStep
  <2>2. PICK a \in Admissible(n) :
          k = [agent |-> a, term |-> observed[n][a].term + 1, issued |-> now,
               stage |-> "claim", claimed |-> now, surviving |-> NoLease]
    BY <1>0, <1>2, LaunchStep
  <2>3. /\ k.agent = a /\ k.issued = now /\ k.term = observed[n][a].term + 1
        /\ observed' = observed /\ relayed' = relayed
    BY <2>1, <2>2 DEF Scan
  <2> SUFFICES ASSUME Uncontested(a)
               PROVE  /\ \A e \in relayed[a] : Accepts(observed[n][a], e) => now < e.issued + Settle
                      /\ Owns(n, a, observed[n][a].term + 1) = {}
    BY <2>3 DEF LaunchKnew, Accepts, Owns, Uncontested
  <2> QED
    BY <1>0, <1>2, NothingOwned DEF NewsBeforeTakeover
<1> QED
  BY <1>1, <1>2

LEMMA LaunchEnds ==
  ASSUME TypeOK, [Next]_vars, network = "timely", NEW n \in Nodes, ~Idle(n), Idle(n)'
  PROVE  LaunchDenied(n) \/ LaunchTenant(n)
<1>1. launching'[n] # launching[n]
  BY DEF Idle
<1>2. ASSUME NEW k \in Nodes, k # n, Loop(k)
      PROVE  FALSE
  BY <1>1, <1>2, OneLoopMoves
<1>3. ~ClaimLands(n) /\ ~latest_lease(n)
  <2>1. launching'[n] = NoLaunch
    BY DEF Idle
  <2>2. ~(launching'[n] \in Launch)
    BY <2>1, FleetLeaseAssumption
  <2>3. CASE ClaimLands(n)
    <3>1. launching'[n] = [launching[n] EXCEPT !.stage = "settle", !.claimed = now]
      BY <2>3 DEF ClaimLands, TypeOK
    <3> QED
      BY <2>2, <3>1, LaunchTyped DEF TypeOK, Launch, Stages
  <2>4. CASE latest_lease(n)
    <3>1. launching'[n] = [launching[n] EXCEPT !.stage = "judge", !.surviving = relay[launching[n].agent]]
      BY <2>4 DEF latest_lease, TypeOK
    <3> QED
      BY <2>2, <3>1, LaunchTyped DEF TypeOK, Launch, Stages
  <2> QED
    BY <2>3, <2>4
<1>4. ~Tick /\ ~(\E k \in Nodes, b \in Agents : Die(k, b)) /\ ~UNCHANGED vars
  BY <1>1 DEF Tick, Die, vars, nodeVars
<1>5. ~reap_dead(n) /\ ~Scan(n) /\ ~LaunchFails(n)
      /\ \A b \in Agents : ~heartbeat_lease(n, b) /\ ~observe_occupancy(n, b)
  BY DEF reap_dead, Scan, heartbeat_lease, observe_occupancy, LaunchFails
<1> QED
  BY <1>2, <1>3, <1>4, <1>5 DEF Next, Loop

\* Who begins to host has the claim that it launches by on the relay.
LEMMA NewTenant ==
  ASSUME TermsInv, HouseInv, [Next]_vars, network = "timely", NEW n \in Nodes, NEW a \in Agents,
         a \in Hosted(n)', a \notin Hosted(n)
  PROVE  /\ ~Idle(n) /\ launching[n].agent = a /\ tenants'[n][a].term = launching[n].term
         /\ UNCHANGED relayed /\ Owns(n, a, launching[n].term) # {}
<1>1. /\ ~Idle(n) /\ launching[n].agent = a /\ tenants'[n][a].term = launching[n].term
      /\ UNCHANGED relayed /\ Idle(n)'
  BY TenantStep DEF TermsInv
<1>2. LaunchTenant(n)
  <2>1. LaunchDenied(n) => tenants' = tenants
    BY DEF LaunchDenied, Abort
  <2> QED
    BY <1>1, <2>1, LaunchEnds DEF TermsInv, Hosted
<1>3. /\ launching[n].surviving \in relayed[a]
      /\ launching[n].surviving.holder = n /\ launching[n].surviving.term = launching[n].term
  BY <1>1, <1>2 DEF LaunchTenant, confirm_takeover_win, HouseInv, LaunchTimes
<1> QED
  BY <1>1, <1>3 DEF Owns

LEMMA HostedIsClaimedStep ==
  ASSUME TermsInv, HouseInv, [Next]_vars, network = "timely"
  PROVE  HostedIsClaimed'
<1> SUFFICES ASSUME NEW n \in Nodes, NEW a \in Agents, a \in Hosted(n)'
             PROVE  Beats(n, a)' # {}
  BY DEF HostedIsClaimed, Hosted
<1>1. relayed[a] \subseteq relayed'[a]
  BY RelayedGrows DEF TermsInv
<1>2. CASE a \in Hosted(n)
  <2>1. tenants'[n][a].term = tenants[n][a].term
    BY <1>2, TenantStep DEF TermsInv, LaunchTops
  <2> QED
    BY <1>1, <1>2, <2>1 DEF HouseInv, HostedIsClaimed, Beats, Owns
<1>3. CASE a \notin Hosted(n)
  BY <1>1, <1>3, NewTenant DEF Beats, Owns
<1> QED
  BY <1>2, <1>3

LEMMA SucceedsStep ==
  ASSUME TermsInv, HouseInv, [Next]_vars, network = "timely"
  PROVE  Succeeds'
<1> SUFFICES ASSUME NEW a \in Agents, NEW e \in relayed'[a], e.term > 1
             PROVE  \E f \in relayed'[a] : f.term = e.term - 1 /\ f.issued + TTL < e.issued
  BY DEF Succeeds
<1>0. /\ relayed[a] \subseteq relayed'[a] /\ TTL \in Nat /\ now \in Nat
      /\ \A f \in relayed[a] : f \in Lease /\ f.issued \in Nat /\ f.term \in Nat /\ f.issued <= now
  BY RelayedGrows, FleetLeaseAssumption DEF TermsInv, TypeOK, ClaimsPast, Lease, Term, Time
<1>1. CASE e \in relayed[a]
  BY <1>0, <1>1 DEF HouseInv, Succeeds
<1>2. CASE e \notin relayed[a]
  <2>1. e \in Lease /\ e.issued = now /\ e.term \in Nat /\ e.holder \in Nodes
    BY <1>2, NewEvent DEF Lease, Term
  <2>2. CASE a \in Hosted(e.holder) /\ e.term = tenants[e.holder][a].term
    <3>1. PICK g \in relayed[a] : g.term = e.term
      BY <2>1, <2>2 DEF HouseInv, HostedIsClaimed, Beats, Owns
    <3>2. PICK f \in relayed[a] : f.term = g.term - 1 /\ f.issued + TTL < g.issued
      BY <3>1 DEF HouseInv, Succeeds
    <3> QED
      BY <1>0, <2>1, <3>1, <3>2
  <2>3. CASE ClaimLands(e.holder) /\ launching[e.holder].agent = a /\ e.term = launching[e.holder].term
    <3> DEFINE o == observed[e.holder][a]
    <3>1. ~Idle(e.holder) /\ launching[e.holder].stage = "claim"
      BY <2>3 DEF ClaimLands
    <3>2. o \in relayed[a] /\ e.term = o.term + 1
      BY <2>1, <2>3, <3>1 DEF TermsInv, SeenRelayed, LaunchTops
    <3>3. o.issued + TTL < now
      BY <2>1, <2>3, <3>1 DEF HouseInv, LaunchTimes
    <3> QED
      BY <1>0, <2>1, <3>2, <3>3
  <2> QED
    BY <1>2, <2>2, <2>3, NewEvent
<1> QED
  BY <1>1, <1>2

LEMMA OwnsAgedStep ==
  ASSUME TermsInv, HouseInv, [Next]_vars, network = "timely", PauseFits
  PROVE  OwnsAged'
<1> SUFFICES ASSUME NEW n \in Nodes, NEW a \in Agents, Uncontested(a)',
                    NEW e \in relayed'[a], e.holder = n, e.term > 1
             PROVE  \/ \E f \in relayed'[a] : f.holder = n /\ f.term = e.term /\ f.issued + Settle <= now'
                    \/ ~Idle(n)' /\ launching'[n].agent = a /\ launching'[n].term = e.term
  BY DEF OwnsAged, Owns
<1> DEFINE Aged == \E f \in relayed[a] : f.holder = n /\ f.term = e.term /\ f.issued + Settle <= now
<1>0. /\ relayed[a] \subseteq relayed'[a] /\ Uncontested(a) /\ Settle \in Nat
      /\ now \in Nat /\ now' \in Nat /\ now' >= now
      /\ \A f \in relayed[a] : f.issued \in Nat
  BY RelayedGrows, ClockForward, FleetLeaseAssumption DEF TermsInv, TypeOK, Lease, Time
<1>1. Aged => \E f \in relayed'[a] : f.holder = n /\ f.term = e.term /\ f.issued + Settle <= now'
  BY <1>0
<1>2. ASSUME NEW g \in relayed[a], g.holder = n, g.term = e.term
      PROVE  Aged \/ (~Idle(n) /\ launching[n].agent = a /\ launching[n].term = e.term)
  BY <1>0, <1>2 DEF HouseInv, OwnsAged, Owns
<1>3. CASE e \in relayed[a]
  <2>1. CASE ~Aged
    <3>1. ~Idle(n) /\ launching[n].agent = a /\ launching[n].term = e.term
      BY <1>2, <1>3, <2>1
    <3>2. CASE ~Idle(n)'
      BY <3>1, <3>2, LaunchGoesOn DEF TermsInv
    <3>3. CASE Idle(n)'
      <4>1. launching[n].stage = "judge"
        BY <3>1, <3>3, LaunchEnds DEF TermsInv, LaunchDenied, LaunchTenant
      <4>2. now >= launching[n].issued + Settle
        BY <3>1, <4>1 DEF HouseInv, LaunchTimes
      <4>3. e.issued = launching[n].issued
        BY <1>0, <1>3, <3>1 DEF HouseInv, LaunchKnew, Owns
      <4> QED
        BY <1>0, <1>3, <2>1, <4>2, <4>3
    <3> QED
      BY <3>2, <3>3
  <2> QED
    BY <1>1, <2>1
<1>4. CASE e \notin relayed[a]
  <2>1. CASE Idle(n) /\ a \in Hosted(n) /\ e.term = tenants[n][a].term
    <3>1. \E g \in relayed[a] : g.holder = n /\ g.term = e.term
      BY <2>1 DEF HouseInv, HostedIsClaimed, Beats, Owns
    <3> QED
      BY <1>1, <1>2, <2>1, <3>1
  <2>2. CASE ClaimLands(n) /\ launching[n].agent = a /\ e.term = launching[n].term
    <3>1. ~Idle(n) /\ launching[n].stage = "claim"
      BY <2>2 DEF ClaimLands
    <3>2. ~Idle(n)'
      BY <3>1, LaunchEnds DEF TermsInv, LaunchDenied, LaunchTenant
    <3> QED
      BY <2>2, <3>1, <3>2, LaunchGoesOn DEF TermsInv
  <2> QED
    BY <1>4, <2>1, <2>2, NewEvent
<1> QED
  BY <1>3, <1>4

\* Only a launch makes a tenant run.
LEMMA TenantRuns ==
  ASSUME TermsInv, [Next]_vars, NEW n \in Nodes, NEW a \in Agents, a \in Hosted(n), Runs(n, a)'
  PROVE  Runs(n, a)
<1>1. CASE tenants'[n] = tenants[n]
  BY <1>1 DEF Runs, Hosted
<1>2. ASSUME NEW k \in Nodes, NEW b \in Agents, Die(k, b)
      PROVE  Runs(n, a)
  BY <1>2 DEF Die, Runs, Hosted, TermsInv, TypeOK, Tenant
<1>3. CASE reap_dead(n)
  BY <1>3 DEF reap_dead, Runs, Hosted, TermsInv, TypeOK
<1>4. CASE LaunchTenant(n)
  <2>1. launching[n].agent # a
    BY <1>4 DEF LaunchTenant, TermsInv, LaunchTops
  <2> QED
    BY <1>4, <2>1 DEF LaunchTenant, Runs, Hosted, TermsInv, TypeOK
<1>5. CASE Loop(n) /\ ~reap_dead(n) /\ ~LaunchTenant(n)
  BY <1>1, <1>5 DEF Loop, heartbeat_lease, observe_occupancy, Scan, ClaimLands, latest_lease,
    LaunchFails, LaunchDenied, Abort, nodeVars
<1>6. ASSUME NEW k \in Nodes, k # n, Loop(k)
      PROVE  tenants'[n] = tenants[n]
  BY <1>6, OneLoopMoves DEF TermsInv
<1>7. CASE Tick \/ UNCHANGED vars
  BY <1>1, <1>7 DEF Tick, vars, nodeVars
<1> QED
  BY <1>1, <1>2, <1>3, <1>4, <1>5, <1>6, <1>7 DEF Next

\* Who contends has claimed.
LEMMA ContenderOwns ==
  ASSUME HouseInv, network = "timely", NEW n \in Nodes, NEW a \in Agents, NEW t, Contends(n, a, t)
  PROVE  Owns(n, a, t) # {}
BY DEF Contends, HouseInv, HostedIsClaimed, Beats, Runs

\* Who contends did so before, or lands its claim now.
LEMMA ContendsStep ==
  ASSUME TermsInv, HouseInv, NewsBeforeTakeover, [Next]_vars, network = "timely", PauseFits,
         NEW n \in Nodes, NEW a \in Agents, NEW t \in Term, Uncontested(a)', Contends(n, a, t)'
  PROVE  \/ Contends(n, a, t)
         \/ ClaimLands(n) /\ launching[n].agent = a /\ launching[n].term = t
<1>0. TypeOK /\ TypeOK' /\ Settle \in Nat /\ Uncontested(a)
  BY NextTyped, RelayedGrows, FleetLeaseAssumption DEF TermsInv
<1>1. CASE Runs(n, a)' /\ tenants'[n][a].term = t
  <2>1. a \in Hosted(n)'
    BY <1>1 DEF Runs
  <2>2. CASE a \notin Hosted(n)
    BY <1>1, <2>1, <2>2, NewTenant DEF Contends
  <2>3. CASE a \in Hosted(n)
    <3>1. tenants'[n][a].term = tenants[n][a].term
      BY <2>1, <2>3, TenantStep DEF TermsInv, LaunchTops
    <3>2. Runs(n, a)
      BY <1>0, <1>1, <2>3, TenantRuns
    <3> QED
      BY <1>1, <3>1, <3>2 DEF Contends
  <2> QED
    BY <2>2, <2>3
<1>2. CASE /\ ~Idle(n)' /\ launching'[n].agent = a /\ launching'[n].term = t
           /\ \E e \in relayed'[a] : e.holder = n /\ e.term = t
  <2>1. PICK e \in relayed'[a] : e.holder = n /\ e.term = t
    BY <1>2
  <2>2. CASE ~Idle(n)
    <3>1. launching[n].agent = a /\ launching[n].term = t
      BY <1>0, <1>2, <2>2, LaunchGoesOn
    <3>2. e \notin relayed[a] => ClaimLands(n)
      BY <2>1, <2>2, NewEvent
    <3> QED
      BY <2>1, <2>2, <3>1, <3>2 DEF Contends, Owns
  <2>3. CASE Idle(n)
    <3>1. Scan(n) /\ \E b \in Admissible(n) :
            launching'[n] = [agent |-> b, term |-> observed[n][b].term + 1, issued |-> now,
                             stage |-> "claim", claimed |-> now, surviving |-> NoLease]
      BY <1>0, <1>2, <2>3, LaunchStep
    <3>2. a \in Admissible(n) /\ t = observed[n][a].term + 1
      BY <1>2, <3>1
    <3>3. relayed' = relayed
      BY <3>1 DEF Scan
    <3> QED
      BY <1>0, <2>1, <2>3, <3>2, <3>3, NothingOwned DEF Owns
  <2> QED
    BY <2>2, <2>3
<1> QED
  BY <1>1, <1>2 DEF Contends, Owns

\* A claim is of the highest term, and no other node contends below it.
LEMMA ClaimIsTop ==
  ASSUME TermsInv, HouseInv, SteadyBeats, network = "timely", PauseFits,
         NEW m \in Nodes, ClaimLands(m), NEW a \in Agents, a = launching[m].agent, Uncontested(a)
  PROVE  /\ \A e \in relayed[a] : e.term <= launching[m].term
         /\ \A n \in Nodes, t \in Term : n # m /\ Contends(n, a, t) => launching[m].term <= t
<1> DEFINE l == launching[m]
           o == observed[m][a]
<1>1. ~Idle(m) /\ l.stage = "claim"
  BY DEF ClaimLands
<1>2. /\ Settle \in Nat /\ TTL \in Nat /\ now \in Nat
      /\ \A e \in relayed[a] : e \in Lease /\ e.issued \in Nat /\ e.term \in Nat /\ e.issued <= now
  BY FleetLeaseAssumption DEF TermsInv, TypeOK, ClaimsPast, Lease, Term, Time
<1>3. o \in relayed[a] /\ l.term = o.term + 1
  BY <1>1 DEF TermsInv, LaunchTops, SeenRelayed
<1>4. a \in Keystores[m] /\ now = l.issued /\ o.issued + TTL < now
  BY <1>1 DEF HouseInv, LaunchTimes
<1>5. \A e \in relayed[a] : Accepts(o, e) => now < e.issued + Settle
  BY <1>1, <1>4 DEF HouseInv, LaunchKnew
<1>6. ASSUME NEW e \in relayed[a], e.term > l.term
      PROVE  FALSE
  <2>1. PICK f \in relayed[a] : f.term = e.term - 1 /\ f.issued + TTL < e.issued
    BY <1>2, <1>3, <1>6 DEF HouseInv, Succeeds
  <2>2. Accepts(o, f)
    BY <1>2, <1>3, <1>6, <2>1 DEF Accepts
  <2> QED
    BY <1>2, <1>5, <2>1, <2>2 DEF PauseFits
<1>7. ASSUME NEW n \in Nodes, NEW t \in Term, n # m, Contends(n, a, t), t < l.term
      PROVE  FALSE
  <2>1. o.term = t
    BY <1>2, <1>3, <1>7 DEF HouseInv, ContenderIsTop, Term
  <2>2. PICK h \in relayed[a] : h.holder = n /\ h.term = t
    BY <1>7, ContenderOwns DEF Owns
  <2>3. o.holder = n
    BY <1>3, <2>1, <2>2 DEF Uncontested
  <2>4. CASE Runs(n, a) /\ tenants[n][a].term = t
    <3>1. o \in Beats(n, a) /\ now + Settle > o.issued + TTL + 1
      BY <1>2, <1>3, <1>4, <2>1, <2>3, <2>4 DEF Beats, Owns, PauseFits
    <3>2. PICK f \in Beats(n, a) : o.issued < f.issued /\ f.issued + Settle <= o.issued + TTL + 1
      BY <1>4, <1>7, <2>4, <3>1 DEF SteadyBeats
    <3>3. f \in relayed[a] /\ Accepts(o, f)
      BY <2>3, <3>2 DEF Beats, Owns, Accepts
    <3> QED
      BY <1>2, <1>3, <1>4, <1>5, <3>2, <3>3
  <2>5. CASE ~Idle(n) /\ launching[n].agent = a /\ launching[n].term = t
    <3>1. o.issued = launching[n].issued
      BY <1>3, <2>1, <2>3, <2>5 DEF HouseInv, LaunchKnew, Owns
    <3>2. now <= launching[n].issued + Settle
      BY <2>5 DEF HouseInv, LaunchTimes
    <3> QED
      BY <1>2, <1>3, <1>4, <3>1, <3>2 DEF PauseFits
  <2> QED
    BY <1>7, <2>4, <2>5 DEF Contends
<1> QED
  BY <1>2, <1>3, <1>6, <1>7 DEF Term

LEMMA ContenderIsTopStep ==
  ASSUME TermsInv, HouseInv, NewsBeforeTakeover, SteadyBeats, [Next]_vars, network = "timely", PauseFits
  PROVE  ContenderIsTop'
<1> SUFFICES ASSUME NEW n \in Nodes, NEW a \in Agents, NEW t \in Term,
                    Uncontested(a)', Contends(n, a, t)', NEW e \in relayed'[a]
             PROVE  e.term <= t
  BY DEF ContenderIsTop
<1>0. Uncontested(a) /\ \A f \in relayed[a] : f.term \in Nat
  BY RelayedGrows DEF TermsInv, TypeOK, Lease, Term
<1>1. CASE e \in relayed[a]
  <2>1. CASE Contends(n, a, t)
    BY <1>0, <1>1, <2>1 DEF HouseInv, ContenderIsTop
  <2>2. CASE ClaimLands(n) /\ launching[n].agent = a /\ launching[n].term = t
    BY <1>0, <1>1, <2>2, ClaimIsTop
  <2> QED
    BY <2>1, <2>2, ContendsStep
<1>2. CASE e \notin relayed[a]
  <2>1. e.holder \in Nodes /\ e.term \in Nat
    BY <1>2, NewEvent DEF Lease, Term
  <2>2. CASE a \in Hosted(e.holder) /\ UNCHANGED launching /\ e.term = tenants[e.holder][a].term
             /\ Idle(e.holder)
    <3>1. PICK g \in relayed[a] : g.term = e.term
      BY <2>1, <2>2 DEF HouseInv, HostedIsClaimed, Beats, Owns
    <3>2. CASE Contends(n, a, t)
      BY <1>0, <3>1, <3>2 DEF HouseInv, ContenderIsTop
    <3>3. CASE ClaimLands(n) /\ launching[n].agent = a /\ launching[n].term = t
      BY <1>0, <3>1, <3>3, ClaimIsTop
    <3> QED
      BY <3>2, <3>3, ContendsStep
  <2>3. CASE ClaimLands(e.holder) /\ launching[e.holder].agent = a /\ e.term = launching[e.holder].term
    <3>1. ~Idle(e.holder)
      BY <2>3 DEF ClaimLands
    <3>2. CASE n # e.holder /\ Contends(n, a, t)
      BY <1>0, <2>1, <2>3, <3>2, ClaimIsTop
    <3>3. CASE n = e.holder /\ Contends(n, a, t)
      BY <2>1, <2>3, <3>1, <3>3 DEF Contends, TermsInv, LaunchTops, Runs, Term
    <3>4. CASE ~Contends(n, a, t)
      <4>1. ClaimLands(n) /\ launching[n].agent = a /\ launching[n].term = t
        BY <3>4, ContendsStep
      <4>2. n = e.holder
        <5>1. launching[n].stage = "claim" /\ launching'[n].stage = "settle"
          BY <4>1, LaunchTyped DEF ClaimLands, TermsInv, TypeOK, Launch
        <5>2. n # e.holder => launching'[n] = launching[n]
          BY <2>1, <2>3, OneLoopMoves DEF Loop, TermsInv
        <5> QED
          BY <5>1, <5>2
      <4> QED
        BY <2>3, <4>1, <4>2 DEF Term
    <3> QED
      BY <3>2, <3>3, <3>4
  <2> QED
    BY <1>2, <2>2, <2>3, NewEvent
<1> QED
  BY <1>1, <1>2

LEMMA HouseStep ==
  ASSUME TermsInv, HouseInv, NewsBeforeTakeover, SteadyBeats, [Next]_vars, PauseFits
  PROVE  HouseInv'
<1> SUFFICES ASSUME network = "timely"
             PROVE  HouseInv'
  BY ClockStep DEF HouseInv
<1>1. KeptIsRelayed'
  BY KeptStep DEF TermsInv, HouseInv
<1> QED
  BY <1>1, LaunchTimesStep, LaunchKnewStep, SucceedsStep, OwnsAgedStep, HostedIsClaimedStep,
     ContenderIsTopStep DEF HouseInv

LEMMA TermsAreKnown == Spec => []TermsInv
<1>1. Init => TermsInv
  BY TermsInit
<1>2. TermsInv /\ [Next]_vars => TermsInv'
  BY TermsStep
<1> QED
  BY <1>1, <1>2, PTL DEF Spec

LEMMA HouseStarts == ASSUME Init PROVE HouseInv
<1>1. \A a \in Agents : relayed[a] = {FirstLease(a)} /\ relay[a] = FirstLease(a)
  BY DEF Init
<1>2. \A n \in Nodes : Idle(n)
  BY DEF Init, Idle
<1>3. \A n \in Nodes : \A a \in Hosted(n) : Home[a] = n /\ tenants[n][a].term = 1
  BY DEF Init, Hosted
<1>4. \A a \in Agents : FirstLease(a).term = 1 /\ FirstLease(a).holder = Home[a]
  BY DEF FirstLease
<1>5. Succeeds /\ OwnsAged /\ KeptIsRelayed
  BY <1>1, <1>4 DEF Succeeds, OwnsAged, KeptIsRelayed
<1>6. HostedIsClaimed
  BY <1>1, <1>3, <1>4 DEF HostedIsClaimed, Beats, Owns, Hosted
<1>7. ContenderIsTop
  BY <1>1, <1>2, <1>3, <1>4 DEF ContenderIsTop, Contends, Runs, Hosted
<1> QED
  BY <1>2, <1>5, <1>6, <1>7 DEF HouseInv, LaunchTimes, LaunchKnew

\* Two that run an agent have both the highest term, which is one node's.
LEMMA HouseHasOneHost ==
  ASSUME TermsInv, HouseInv
  PROVE  SingleHost
<1> SUFFICES ASSUME network = "timely", NEW a \in Agents, Uncontested(a), NEW n \in Nodes,
                    NEW m \in Nodes, Runs(n, a), Runs(m, a)
             PROVE  n = m
  BY DEF SingleHost
<1> DEFINE s == tenants[n][a].term
           t == tenants[m][a].term
<1>1. s \in Term /\ t \in Term /\ Contends(n, a, s) /\ Contends(m, a, t)
  BY DEF Contends, Runs, Hosted, TermsInv, TypeOK, Tenant
<1>2. PICK e \in relayed[a] : e.holder = n /\ e.term = s
  BY <1>1, ContenderOwns DEF Owns
<1>3. PICK f \in relayed[a] : f.holder = m /\ f.term = t
  BY <1>1, ContenderOwns DEF Owns
<1>4. s <= t /\ t <= s
  BY <1>1, <1>2, <1>3 DEF HouseInv, ContenderIsTop
<1> QED
  BY <1>1, <1>2, <1>3, <1>4 DEF Uncontested, Term

\* A node that admits a takeover has read the beats of whoever runs the agent.
LEMMA NobodyRuns ==
  ASSUME TermsInv, HouseInv, NewsBeforeTakeover, SteadyBeats, network = "timely", PauseFits,
         NEW n \in Nodes, Idle(n), NEW a \in Admissible(n), Uncontested(a),
         NEW m \in Nodes, Runs(m, a)
  PROVE  FALSE
<1> DEFINE o == observed[n][a]
           t == tenants[m][a].term
<1>1. /\ a \in Agents /\ a \in Keystores[n] /\ a \notin Hosted(n) /\ o # NoLease
      /\ now > o.issued + TTL
  BY DEF Admissible, Admitted, detect_takeovers, Candidates, Seen, lease_is_stale
<1>2. /\ Settle \in Nat /\ TTL \in Nat /\ now \in Nat /\ o \in relayed[a]
      /\ \A e \in relayed[a] : e \in Lease /\ e.issued \in Nat /\ e.term \in Nat
  BY <1>1, FleetLeaseAssumption DEF TermsInv, TypeOK, SeenRelayed, Lease, Term, Time
<1>3. n # m /\ t \in Term /\ Contends(m, a, t)
  BY <1>1 DEF Contends, Runs, Hosted, TermsInv, TypeOK, Tenant
<1>4. o.term <= t
  BY <1>1, <1>2, <1>3 DEF HouseInv, ContenderIsTop
<1>5. PICK h \in relayed[a] : h.holder = m /\ h.term = t
  BY <1>1, <1>3, ContenderOwns DEF Owns
<1>6. \A e \in relayed[a] : Accepts(o, e) => now < e.issued + Settle
  BY DEF NewsBeforeTakeover
<1>7. CASE o.term = t
  <2>1. o.holder = m
    BY <1>2, <1>5, <1>7 DEF Uncontested
  <2>2. o \in Beats(m, a) /\ now + Settle > o.issued + TTL + 1
    BY <1>1, <1>2, <1>7, <2>1 DEF Beats, Owns, PauseFits
  <2>3. PICK f \in Beats(m, a) : o.issued < f.issued /\ f.issued + Settle <= o.issued + TTL + 1
    BY <1>1, <1>3, <2>2 DEF SteadyBeats
  <2>4. f \in relayed[a] /\ Accepts(o, f)
    BY <2>1, <2>3 DEF Beats, Owns, Accepts
  <2> QED
    BY <1>1, <1>2, <1>6, <2>3, <2>4
<1>8. CASE o.term < t
  <2>1. h.term > 1
    BY <1>2, <1>5, <1>8, <1>3 DEF Term, Lease
  <2>2. PICK f \in Owns(m, a, t) : f.issued + Settle <= now
    BY <1>1, <1>5, <2>1 DEF HouseInv, OwnsAged, TermsInv, LaunchTops, Runs
  <2>3. f \in relayed[a] /\ Accepts(o, f)
    BY <1>8, <2>2 DEF Owns, Accepts
  <2> QED
    BY <1>2, <1>6, <2>2, <2>3
<1> QED
  BY <1>2, <1>3, <1>4, <1>7, <1>8 DEF Term

(* No agent runs on two hosts (the fence of the control loop, the heartbeat    *)
(* and detect_takeovers together): on a timely network, as long as no term of  *)
(* it was contested, whoever takes over has read what is a settling pause old, *)
(* and a host is heard of that much before its lease goes stale.               *)
THEOREM OneHostPerAgent ==
  ASSUME PauseFits
  PROVE  Spec /\ []NewsBeforeTakeover /\ []SteadyBeats => []SingleHost
<1>1. Init => HouseInv
  BY HouseStarts
<1>2. TermsInv /\ HouseInv /\ NewsBeforeTakeover /\ SteadyBeats /\ [Next]_vars => HouseInv'
  BY HouseStep
<1>3. TermsInv /\ HouseInv => SingleHost
  BY HouseHasOneHost
<1> QED
  BY <1>1, <1>2, <1>3, TermsAreKnown, PTL DEF Spec

(* No node claims the lease of an agent that runs (detect_takeovers against    *)
(* the heartbeat), under the same conditions.                                  *)
THEOREM NoTakeoverWhileItRuns ==
  ASSUME PauseFits
  PROVE  Spec /\ []NewsBeforeTakeover /\ []SteadyBeats => NoFalseTakeover
<1> DEFINE Step ==
      \A n \in Nodes : network = "timely" /\ Idle(n) /\ ~Idle(n)' =>
        LET a == launching'[n].agent IN
        Uncontested(a) => \A m \in Nodes : ~Runs(m, a)
<1>1. Init => HouseInv
  BY HouseStarts
<1>2. TermsInv /\ HouseInv /\ NewsBeforeTakeover /\ SteadyBeats /\ [Next]_vars => HouseInv'
  BY HouseStep
<1>3. ASSUME TermsInv, HouseInv, NewsBeforeTakeover, SteadyBeats, [Next]_vars
      PROVE  [Step]_vars
  <2> SUFFICES ASSUME NEW n \in Nodes, network = "timely", Idle(n), ~Idle(n)',
                      Uncontested(launching'[n].agent), NEW m \in Nodes,
                      Runs(m, launching'[n].agent)
               PROVE  FALSE
    OBVIOUS
  <2>1. \E a \in Admissible(n) :
          launching'[n] = [agent |-> a, term |-> observed[n][a].term + 1, issued |-> now,
                           stage |-> "claim", claimed |-> now, surviving |-> NoLease]
    BY <1>3, LaunchStep DEF TermsInv
  <2>2. launching'[n].agent \in Admissible(n)
    BY <2>1
  <2> QED
    BY <1>3, <2>2, NobodyRuns
<1> QED
  BY <1>1, <1>2, <1>3, TermsAreKnown, PTL DEF Spec, NoFalseTakeover
-----------------------------------------------------------------------------
(* The deadline of a failover.  A second ends when every node has done what it *)
(* had to do in it, so what it ends with bounds when each was last heard of.   *)

\* The delays of the code: a beat and a pause fit a lease, a backoff its failover.
FailoverFits == Every <= TTL + 1 /\ Settle <= TTL + 1 /\ BackoffSecs <= TTL + 1 + Grace

SecondEnds == \A n \in Nodes : ~Overdue(n)

Deadline(a) == relay[a].issued + TTL + 1 + Grace

(* The nodes that could take a mortal agent over are free to: none is in a     *)
(* launch of another agent, each has room, and sees something fresh at the end *)
(* of a second; and while the agent's lease is stale, what one of them knows   *)
(* of it is within the age bound of the scan.                                  *)
FreeToTakeOver ==
  network = "timely" =>
    \A a \in Mortal :
      /\ \A n \in Nodes : ~Idle(n) /\ (a \in Keystores[n] \/ a \in Hosted(n)) => launching[n].agent = a
      /\ \A n \in Nodes : a \in Keystores[n] \ Hosted(n) =>
           /\ Cardinality(Hosted(n)) < MaxTenants
           /\ Idle(n) /\ SecondEnds => Sighted(n)
      /\ (\E n \in Nodes : a \in Keystores[n]) /\ lease_is_stale(relay[a]) /\ now <= Deadline(a) =>
           \E n \in Nodes : /\ a \in Keystores[n] /\ observed[n][a] # NoLease
                            /\ now - observed[n][a].issued <= MaxAge

KeptIsLatest == \A a \in Agents : \A e \in relayed[a] : e.issued <= relay[a].issued

\* The lease of the agent is not stale for more than a second.
Heard(a) == now <= relay[a].issued + TTL + 1

Claimed(n, a) == ~Idle(n) /\ launching[n].agent = a /\ launching[n].stage # "claim"

HostsHeard == \A n \in Nodes, a \in Mortal : a \in Hosted(n) \/ Claimed(n, a) => Heard(a)

LaunchesHeard ==
  \A n \in Nodes, a \in Mortal :
    /\ Claimed(n, a) => launching[n].issued <= relay[a].issued
    /\ takeover_backoff[n][a] # Never => takeover_backoff[n][a] <= relay[a].issued

GracePast == \A n \in Nodes, a \in Agents : grace_state[n][a] # Never => grace_state[n][a] <= now

(* Whoever could take over an agent that is not heard of has read all there is *)
(* of it, and counts its dwell since the lease went stale.                     *)
DwellsInTime ==
  \A n \in Nodes, a \in Mortal : a \in Keystores[n] /\ ~Heard(a) =>
    LET o == observed[n][a]  g == grace_state[n][a] IN
    /\ o # NoLease /\ \A e \in relayed[a] : ~Accepts(o, e)
    /\ now - o.issued <= MaxAge => g # Never /\ g <= relay[a].issued + TTL + 1

TakenInTime == \A a \in Mortal : (\E n \in Nodes : a \in Keystores[n]) => now <= Deadline(a)

TimeInv ==
  network = "timely" =>
    /\ \A n \in Nodes : LaunchTimes(n)
    /\ KeptIsRelayed /\ KeptIsLatest /\ GracePast
    /\ HostsHeard /\ LaunchesHeard /\ DwellsInTime /\ TakenInTime

\* An agent that cannot exit runs where it was at first.
ImmortalsRun == \A a \in Agents \ Mortal : Runs(Home[a], a)

\* The times that the invariant compares are numbers.
LEMMA TimesAreNumbers ==
  ASSUME TypeOK
  PROVE  /\ now \in Nat /\ TTL \in Nat /\ Settle \in Nat /\ Grace \in Nat /\ BackoffSecs \in Nat
         /\ Every \in Nat /\ MaxAge \in Nat
         /\ \A a \in Agents : relay[a].issued \in Nat
         /\ \A a \in Agents : \A e \in relayed[a] : e.issued \in Nat
         /\ \A n \in Nodes, a \in Agents : observed[n][a] # NoLease => observed[n][a].issued \in Nat
         /\ \A n \in Nodes, a \in Agents : grace_state[n][a] # Never => grace_state[n][a] \in Nat
         /\ \A n \in Nodes, a \in Agents : takeover_backoff[n][a] # Never => takeover_backoff[n][a] \in Nat
<1>1. now \in Nat
  BY FleetLeaseAssumption DEF TypeOK, Time
<1>2. \A a \in Agents : relay[a].issued \in Nat
  BY FleetLeaseAssumption DEF TypeOK, Time, Lease
<1>3. \A a \in Agents : \A e \in relayed[a] : e.issued \in Nat
  BY FleetLeaseAssumption DEF TypeOK, Time, Lease
<1>4. \A n \in Nodes, a \in Agents : observed[n][a] # NoLease => observed[n][a].issued \in Nat
  BY FleetLeaseAssumption DEF TypeOK, Time, Lease
<1>5. \A n \in Nodes, a \in Agents : grace_state[n][a] # Never => grace_state[n][a] \in Nat
  BY FleetLeaseAssumption DEF TypeOK, Time
<1>6. \A n \in Nodes, a \in Agents : takeover_backoff[n][a] # Never => takeover_backoff[n][a] \in Nat
  BY FleetLeaseAssumption DEF TypeOK, Time
<1> QED
  BY <1>1, <1>2, <1>3, <1>4, <1>5, <1>6, FleetLeaseAssumption

\* The relay keeps a latest event, and a later one only.
LEMMA LatestStep ==
  ASSUME TypeOK, KeptIsRelayed, KeptIsLatest, [Next]_vars, network = "timely"
  PROVE  KeptIsLatest' /\ \A a \in Agents : relay'[a].issued >= relay[a].issued
<1>0. /\ \A a \in Agents : relay[a].issued \in Nat
      /\ \A a \in Agents : \A e \in relayed[a] : e.issued \in Nat
  BY TimesAreNumbers
<1>1. ASSUME NEW b \in Agents, NEW e, Publish(b, e), e.issued \in Nat
      PROVE  KeptIsLatest' /\ \A a \in Agents : relay'[a].issued >= relay[a].issued
  <2>1. CASE /\ e.issued >= relay[b].issued
             /\ relay' = [relay EXCEPT ![b] = e]
             /\ relayed' = [relayed EXCEPT ![b] = @ \cup {e}]
    <3>1. /\ relay'[b] = e /\ relayed'[b] = relayed[b] \cup {e}
          /\ \A a \in Agents : a # b => relay'[a] = relay[a] /\ relayed'[a] = relayed[a]
      BY <2>1 DEF TypeOK
    <3> QED
      BY <1>0, <1>1, <2>1, <3>1 DEF KeptIsLatest
  <2>2. CASE UNCHANGED <<relay, relayed>>
    BY <1>0, <2>2 DEF KeptIsLatest
  <2> QED
    BY <1>1, <2>1, <2>2 DEF Publish
<1>2. ASSUME NEW n \in Nodes, ClaimLands(n)
      PROVE  \E b \in Agents : \E e : Publish(b, e) /\ e.issued \in Nat
  <2>1. launching[n].agent \in Agents /\ launching[n].issued \in Nat
    BY <1>2, LaunchTyped, FleetLeaseAssumption DEF ClaimLands, Time
  <2> QED
    BY <1>2, <2>1 DEF ClaimLands
<1>3. ASSUME NEW n \in Nodes, NEW b \in Agents, heartbeat_lease(n, b)
      PROVE  \E e : Publish(b, e) /\ e.issued \in Nat
  BY <1>3, TimesAreNumbers DEF heartbeat_lease
<1>4. CASE UNCHANGED <<relay, relayed>>
  BY <1>0, <1>4 DEF KeptIsLatest
<1> QED
  BY <1>1, <1>2, <1>3, <1>4, TimelyStep

\* A claim that has landed is as late as any event of its second.
LEMMA LandedIsHeard ==
  ASSUME TypeOK, NEW n \in Nodes, ClaimLands(n), LaunchTimes(n)
  PROVE  relay'[launching[n].agent].issued >= now
<1> DEFINE l == launching[n]
           a == l.agent
           e == [holder |-> n, term |-> l.term, issued |-> l.issued]
<1>1. a \in Agents /\ l.issued = now /\ Publish(a, e)
  BY LaunchTyped DEF ClaimLands, LaunchTimes
<1>2. now \in Nat /\ relay[a].issued \in Nat /\ e.issued = now
  BY <1>1, TimesAreNumbers
<1> QED
  BY <1>1, <1>2 DEF Publish, TypeOK

\* An agent stays heard of while the second lasts, and what is new makes it so.
LEMMA HeardStep ==
  ASSUME TermsInv, TimeInv, [Next]_vars, network = "timely", NEW a \in Agents, now' = now
  PROVE  /\ Heard(a) => Heard(a)'
         /\ ~Heard(a)' => relayed'[a] = relayed[a]
<1>1. /\ KeptIsLatest' /\ relay'[a].issued >= relay[a].issued
      /\ relayed[a] \subseteq relayed'[a]
  BY LatestStep, RelayedGrows DEF TimeInv, TermsInv
<1>2. now \in Nat /\ TTL \in Nat /\ relay[a].issued \in Nat /\ relay'[a].issued \in Nat
  BY TimesAreNumbers, NextTyped DEF TermsInv, TypeOK, Lease, Time
<1>3. ASSUME NEW e \in relayed'[a], e \notin relayed[a]
      PROVE  Heard(a)'
  <2>1. e.issued = now
    BY <1>3, TimedEvent DEF TimeInv
  <2>2. e.issued <= relay'[a].issued
    BY <1>1 DEF KeptIsLatest
  <2> QED
    BY <1>2, <2>1, <2>2 DEF Heard
<1>4. Heard(a) => Heard(a)'
  BY <1>1, <1>2 DEF Heard
<1> QED
  BY <1>1, <1>3, <1>4

\* A launch that has claimed goes back to a claim that landed.
LEMMA ClaimedStep ==
  ASSUME TermsInv, TimeInv, [Next]_vars, network = "timely", NEW n \in Nodes, NEW a \in Mortal,
         Claimed(n, a)'
  PROVE  \/ Claimed(n, a) /\ launching'[n].issued = launching[n].issued
         \/ ClaimLands(n) /\ launching[n].agent = a /\ launching'[n].issued = now /\ now' = now
<1> DEFINE l == launching[n]
           k == launching'[n]
<1>1. ~Idle(n)' /\ k.agent = a /\ k.stage # "claim"
  BY DEF Claimed
<1>2. ~Idle(n)
  <2>1. ASSUME Idle(n)
        PROVE  \E b \in Admissible(n) :
                 k = [agent |-> b, term |-> observed[n][b].term + 1, issued |-> now,
                      stage |-> "claim", claimed |-> now, surviving |-> NoLease]
    BY <1>1, <2>1, LaunchStep DEF TermsInv
  <2>2. ASSUME Idle(n)
        PROVE  k.stage = "claim"
    <3>1. PICK b \in Admissible(n) :
            launching'[n] = [agent |-> b, term |-> observed[n][b].term + 1, issued |-> now,
                             stage |-> "claim", claimed |-> now, surviving |-> NoLease]
      BY <2>1, <2>2
    <3> QED
      BY <3>1
  <2> QED
    BY <1>1, <2>2
<1>3. k.agent = l.agent /\ k.issued = l.issued
  BY <1>1, <1>2, LaunchGoesOn DEF TermsInv
<1>4. CASE k = l
  BY <1>1, <1>2, <1>3, <1>4 DEF Claimed
<1>5. CASE ClaimLands(n)
  BY <1>1, <1>2, <1>3, <1>5 DEF ClaimLands, TimeInv, LaunchTimes
<1>6. CASE latest_lease(n)
  BY <1>1, <1>2, <1>3, <1>6 DEF latest_lease, Claimed
<1> QED
  BY <1>1, <1>2, <1>4, <1>5, <1>6, LaunchGoesOn DEF TermsInv

\* When a second ends, what is hosted or claimed was heard of in time.
LEMMA HostsHeardTick ==
  ASSUME TermsInv, TimeInv, FreeToTakeOver, FailoverFits, Tick, network = "timely",
         NEW n \in Nodes, NEW a \in Mortal, a \in Hosted(n) \/ Claimed(n, a)
  PROVE  Heard(a)'
<1>0. /\ a \in Agents /\ ~Overdue(n) /\ now' = now + 1 /\ relay' = relay
      /\ now \in Nat /\ TTL \in Nat /\ Every \in Nat /\ Settle \in Nat /\ relay[a].issued \in Nat
  BY TimesAreNumbers, FleetLeaseAssumption DEF Tick, TermsInv
<1>1. CASE Idle(n)
  <2>1. a \in Beating(n)
    BY <1>0, <1>1 DEF Claimed, Overdue, Beating
  <2>2. PICK e \in relayed[a] : ~(e.issued + Every <= now)
    BY <1>0, <1>1, <2>1 DEF Overdue
  <2>3. e.issued \in Nat /\ e.issued <= relay[a].issued
    BY <1>0, TimesAreNumbers DEF TimeInv, KeptIsLatest, TermsInv
  <2> QED
    BY <1>0, <2>2, <2>3 DEF Heard, FailoverFits
<1>2. CASE ~Idle(n)
  <2>1. launching[n].agent = a
    BY <1>2 DEF FreeToTakeOver, Claimed
  <2>2. a \notin Hosted(n)
    BY <1>2, <2>1 DEF TermsInv, LaunchTops
  <2>3. launching[n].issued <= relay[a].issued
    BY <2>2 DEF TimeInv, LaunchesHeard
  <2>4. launching[n].claimed = launching[n].issued /\ launching[n].issued \in Nat
    BY <1>2, LaunchTyped, FleetLeaseAssumption DEF TimeInv, LaunchTimes, TermsInv, Time
  <2>5. now < launching[n].claimed + Settle
    BY <1>0, <1>2, <2>4 DEF Overdue
  <2> QED
    BY <1>0, <2>3, <2>4, <2>5 DEF Heard, FailoverFits
<1> QED
  BY <1>1, <1>2

LEMMA HostsHeardStep ==
  ASSUME TermsInv, TimeInv, FreeToTakeOver, FailoverFits, [Next]_vars, network = "timely"
  PROVE  HostsHeard'
<1> SUFFICES ASSUME NEW n \in Nodes, NEW a \in Mortal, a \in Hosted(n)' \/ Claimed(n, a)'
             PROVE  Heard(a)'
  BY DEF HostsHeard
<1>0. a \in Agents
  BY FleetLeaseAssumption
<1>1. CASE Tick
  <2>1. a \in Hosted(n) \/ Claimed(n, a)
    BY <1>1 DEF Tick, nodeVars, Hosted, Claimed, Idle
  <2> QED
    BY <1>1, <2>1, HostsHeardTick
<1>2. CASE now' = now
  <2>1. CASE Heard(a)
    BY <1>0, <1>2, <2>1, HeardStep
  <2>2. CASE a \in Hosted(n)'
    <3>1. CASE a \in Hosted(n)
      BY <2>1, <3>1 DEF TimeInv, HostsHeard
    <3>2. CASE ~Idle(n) /\ launching[n].agent = a /\ Idle(n)'
      <4>1. Claimed(n, a)
        BY <3>2, LaunchEnds DEF TermsInv, LaunchDenied, LaunchTenant, Claimed
      <4> QED
        BY <2>1, <4>1 DEF TimeInv, HostsHeard
    <3> QED
      BY <1>0, <2>2, <3>1, <3>2, TenantStep DEF TermsInv
  <2>3. CASE Claimed(n, a)'
    <3>1. CASE Claimed(n, a)
      BY <2>1, <3>1 DEF TimeInv, HostsHeard
    <3>2. CASE ClaimLands(n) /\ launching[n].agent = a
      <4>1. relay'[a].issued >= now
        BY <3>2, LandedIsHeard DEF TermsInv, TimeInv
      <4>2. now \in Nat /\ TTL \in Nat /\ relay'[a].issued \in Nat
        BY <1>0, TimesAreNumbers, NextTyped DEF TermsInv, TypeOK, Lease, Time
      <4> QED
        BY <1>2, <4>1, <4>2 DEF Heard
    <3> QED
      BY <2>3, <3>1, <3>2, ClaimedStep
  <2> QED
    BY <2>2, <2>3
<1> QED
  BY <1>1, <1>2, ClockStep

\* An agent backs off from the claim of a launch that was judged.
LEMMA BackoffStep ==
  ASSUME TypeOK, [Next]_vars, network = "timely", NEW n \in Nodes, NEW a \in Agents,
         takeover_backoff'[n][a] # Never
  PROVE  \/ takeover_backoff'[n][a] = takeover_backoff[n][a]
         \/ Claimed(n, a) /\ takeover_backoff'[n][a] = launching[n].issued
<1>1. ASSUME NEW m \in Nodes, Scan(m)
      PROVE  takeover_backoff'[n][a] = takeover_backoff[n][a]
  BY <1>1 DEF Scan, TypeOK
<1>2. ASSUME NEW m \in Nodes, LaunchDenied(m)
      PROVE  \/ takeover_backoff'[n][a] = takeover_backoff[n][a]
             \/ Claimed(n, a) /\ takeover_backoff'[n][a] = launching[n].issued
  <2>1. takeover_backoff' = [takeover_backoff EXCEPT ![m][launching[m].agent] = launching[m].issued]
        /\ ~Idle(m) /\ launching[m].stage = "judge"
    BY <1>2 DEF LaunchDenied, Abort
  <2>2. CASE m = n /\ launching[m].agent = a
    BY <2>1, <2>2 DEF TypeOK, Claimed
  <2>3. CASE ~(m = n /\ launching[m].agent = a)
    BY <2>1, <2>3 DEF TypeOK
  <2> QED
    BY <2>2, <2>3
<1>3. ASSUME NEW m \in Nodes, LaunchTenant(m)
      PROVE  takeover_backoff'[n][a] = takeover_backoff[n][a]
  BY <1>3 DEF LaunchTenant, TypeOK
<1>4. CASE UNCHANGED takeover_backoff
  BY <1>4
<1> QED
  BY <1>1, <1>2, <1>3, <1>4
  DEF Next, Loop, Tick, Die, reap_dead, heartbeat_lease, observe_occupancy, ClaimLands, latest_lease,
      LaunchFails, vars, nodeVars

LEMMA LaunchesHeardStep ==
  ASSUME TermsInv, TimeInv, [Next]_vars, network = "timely"
  PROVE  LaunchesHeard'
<1> SUFFICES ASSUME NEW n \in Nodes, NEW a \in Mortal
             PROVE  /\ Claimed(n, a)' => launching'[n].issued <= relay'[a].issued
                    /\ takeover_backoff'[n][a] # Never => takeover_backoff'[n][a] <= relay'[a].issued
  BY DEF LaunchesHeard
<1>0. a \in Agents
  BY FleetLeaseAssumption
<1>1. /\ relay'[a].issued >= relay[a].issued
      /\ relay[a].issued \in Nat /\ relay'[a].issued \in Nat /\ now \in Nat
      /\ takeover_backoff[n][a] # Never => takeover_backoff[n][a] \in Nat
      /\ ~Idle(n) => launching[n].issued \in Nat
  BY <1>0, LatestStep, TimesAreNumbers, NextTyped, LaunchTyped, FleetLeaseAssumption
  DEF TimeInv, TermsInv, TypeOK, Lease, Time
<1>2. ASSUME Claimed(n, a)'
      PROVE  launching'[n].issued <= relay'[a].issued
  <2>1. CASE Claimed(n, a) /\ launching'[n].issued = launching[n].issued
    BY <1>1, <2>1 DEF TimeInv, LaunchesHeard, Claimed
  <2>2. CASE ClaimLands(n) /\ launching[n].agent = a /\ launching'[n].issued = now
    <3>1. relay'[a].issued >= now
      BY <2>2, LandedIsHeard DEF TermsInv, TimeInv
    <3> QED
      BY <1>1, <2>2, <3>1
  <2> QED
    BY <1>2, <2>1, <2>2, ClaimedStep
<1>3. ASSUME takeover_backoff'[n][a] # Never
      PROVE  takeover_backoff'[n][a] <= relay'[a].issued
  <2>1. CASE takeover_backoff'[n][a] = takeover_backoff[n][a]
    BY <1>1, <1>3, <2>1 DEF TimeInv, LaunchesHeard
  <2>2. CASE Claimed(n, a) /\ takeover_backoff'[n][a] = launching[n].issued
    BY <1>1, <2>2 DEF TimeInv, LaunchesHeard, Claimed
  <2> QED
    BY <1>0, <1>3, <2>1, <2>2, BackoffStep DEF TermsInv
<1> QED
  BY <1>2, <1>3

LEMMA GracePastStep ==
  ASSUME TypeOK, GracePast, [Next]_vars
  PROVE  GracePast'
<1> SUFFICES ASSUME NEW n \in Nodes, NEW a \in Agents, grace_state'[n][a] # Never
             PROVE  grace_state'[n][a] <= now'
  BY DEF GracePast
<1>1. /\ now \in Nat /\ now' \in Nat /\ now' >= now
      /\ grace_state[n][a] # Never => grace_state[n][a] \in Nat /\ grace_state[n][a] <= now
  BY ClockForward, TimesAreNumbers DEF GracePast
<1>2. CASE grace_state'[n] = grace_state[n]
  BY <1>1, <1>2
<1>3. CASE grace_state'[n] = KeepStale(n)
  <2>1. grace_state'[n][a] = now \/ (grace_state[n][a] # Never /\ grace_state'[n][a] = grace_state[n][a])
    BY <1>3, ScanDwell DEF FirstSeenStale
  <2> QED
    BY <1>1, <2>1
<1> QED
  BY <1>2, <1>3, GraceStep

(* A node that could take over an agent that is heard of no more when the      *)
(* second ends: it is idle, sees, has read all there is, and has dwelt.        *)
LEMMA FreeSees ==
  ASSUME TermsInv, TimeInv, FreeToTakeOver, FailoverFits, Tick, network = "timely",
         NEW n \in Nodes, NEW a \in Mortal, a \in Keystores[n], ~Heard(a)'
  PROVE  LET o == observed[n][a]  g == grace_state[n][a] IN
         /\ Idle(n) /\ a \notin Hosted(n) /\ o # NoLease /\ o.issued <= relay[a].issued
         /\ \A e \in relayed[a] : ~Accepts(o, e)
         /\ now - o.issued <= MaxAge =>
              /\ a \in Candidates(n) /\ Sighted(n) /\ FirstSeenStale(n, a) = g
              /\ g # Never /\ g <= relay[a].issued + TTL + 1
<1> DEFINE o == observed[n][a]
           g == grace_state[n][a]
<1>0. /\ a \in Agents /\ ~Overdue(n) /\ now' = now + 1 /\ relay' = relay
      /\ now \in Nat /\ TTL \in Nat /\ relay[a].issued \in Nat
      /\ o # NoLease => o.issued \in Nat
      /\ g # Never => g \in Nat
  BY TimesAreNumbers, FleetLeaseAssumption DEF Tick, TermsInv
<1>1. a \notin Hosted(n) /\ ~Claimed(n, a)
  BY HostsHeardTick
<1>2. Idle(n)
  <2>1. ~Idle(n) => launching[n].agent = a
    BY DEF FreeToTakeOver
  <2> QED
    BY <1>0, <1>1, <2>1 DEF Overdue, Claimed
<1>3. Sighted(n)
  BY <1>1, <1>2 DEF FreeToTakeOver, SecondEnds, Tick
<1>4. \A e \in relayed[a] : ~Accepts(o, e)
  BY <1>0, <1>2 DEF Overdue
<1>5. o # NoLease /\ o.issued <= relay[a].issued
  <2>1. o # NoLease
    BY <1>0, <1>4 DEF TimeInv, KeptIsRelayed, Accepts
  <2>2. o \in relayed[a]
    BY <1>0, <2>1 DEF TermsInv, SeenRelayed
  <2> QED
    BY <1>0, <2>1, <2>2 DEF TimeInv, KeptIsLatest
<1>6. ASSUME now - o.issued <= MaxAge
      PROVE  /\ a \in Candidates(n) /\ FirstSeenStale(n, a) = g
             /\ g # Never /\ g <= relay[a].issued + TTL + 1
  <2>1. a \in Candidates(n)
    BY <1>0, <1>1, <1>5, <1>6 DEF Candidates, Seen, lease_is_stale, Heard
  <2>2. grace_state[n] = KeepStale(n)
    BY <1>0, <1>2, <1>3 DEF Overdue
  <2>3. FirstSeenStale(n, a) = g /\ g # Never
    BY <1>0, <2>1, <2>2, ScanDwell DEF TermsInv
  <2>4. CASE Heard(a)
    BY <1>0, <2>1, <2>3, <2>4 DEF TimeInv, GracePast, Heard
  <2>5. CASE ~Heard(a)
    BY <1>6, <2>1, <2>3, <2>5 DEF TimeInv, DwellsInTime
  <2> QED
    BY <2>1, <2>3, <2>4, <2>5
<1> QED
  BY <1>1, <1>2, <1>3, <1>4, <1>5, <1>6

LEMMA DwellsInTimeStep ==
  ASSUME TermsInv, TimeInv, FreeToTakeOver, FailoverFits, [Next]_vars, network = "timely"
  PROVE  DwellsInTime'
<1> SUFFICES ASSUME NEW n \in Nodes, NEW a \in Mortal, a \in Keystores[n], ~Heard(a)'
             PROVE  LET p == observed'[n][a]  g == grace_state'[n][a] IN
                    /\ p # NoLease /\ \A e \in relayed'[a] : ~Accepts(p, e)
                    /\ now' - p.issued <= MaxAge => g # Never /\ g <= relay'[a].issued + TTL + 1
  BY DEF DwellsInTime, Accepts
<1> DEFINE o == observed[n][a]
<1>0. /\ a \in Agents /\ now \in Nat /\ TTL \in Nat /\ MaxAge \in Nat
      /\ relay[a].issued \in Nat /\ relay'[a].issued \in Nat
      /\ o # NoLease => o.issued \in Nat
      /\ grace_state[n][a] # Never => grace_state[n][a] \in Nat
  BY TimesAreNumbers, NextTyped, FleetLeaseAssumption DEF TermsInv, TypeOK, Lease, Time
<1>1. CASE Tick
  <2>1. /\ o # NoLease /\ \A e \in relayed[a] : ~Accepts(o, e)
        /\ now - o.issued <= MaxAge =>
             grace_state[n][a] # Never /\ grace_state[n][a] <= relay[a].issued + TTL + 1
    BY <1>1, FreeSees
  <2>2. now' = now + 1 /\ UNCHANGED <<relay, relayed, observed, grace_state>>
    BY <1>1 DEF Tick, nodeVars
  <2> QED
    BY <1>0, <2>1, <2>2
<1>2. CASE now' = now
  <2>1. ~Heard(a) /\ relayed'[a] = relayed[a] /\ relay'[a].issued >= relay[a].issued
    BY <1>0, <1>2, HeardStep, LatestStep DEF TimeInv, TermsInv
  <2>2. /\ o # NoLease /\ \A e \in relayed[a] : ~Accepts(o, e)
        /\ now - o.issued <= MaxAge =>
             grace_state[n][a] # Never /\ grace_state[n][a] <= relay[a].issued + TTL + 1
    BY <2>1 DEF TimeInv, DwellsInTime
  <2>3. observed'[n][a] = o
    BY <1>0, <2>2, ObservedStep DEF TermsInv
  <2>4. ASSUME now - o.issued <= MaxAge
        PROVE  grace_state'[n][a] = grace_state[n][a]
    <3>1. a \notin Hosted(n)
      BY <2>1 DEF TimeInv, HostsHeard
    <3>2. o.issued <= relay[a].issued
      BY <1>0, <2>2 DEF TermsInv, SeenRelayed, TimeInv, KeptIsLatest
    <3>3. a \in Candidates(n)
      BY <1>0, <2>1, <2>2, <2>4, <3>1, <3>2 DEF Candidates, Seen, lease_is_stale, Heard
    <3>4. KeepStale(n)[a] = grace_state[n][a]
      BY <1>0, <2>2, <2>4, <3>3, ScanDwell DEF FirstSeenStale, TermsInv
    <3> QED
      BY <3>4, GraceStep DEF TermsInv
  <2> QED
    BY <1>0, <1>2, <2>1, <2>2, <2>3, <2>4
<1> QED
  BY <1>1, <1>2, ClockStep

\* At the deadline a node would have to take the agent over before the second ends.
LEMMA TakenInTimeStep ==
  ASSUME TermsInv, TimeInv, FreeToTakeOver, FailoverFits, [Next]_vars, network = "timely"
  PROVE  TakenInTime'
<1> SUFFICES ASSUME NEW a \in Mortal, \E n \in Nodes : a \in Keystores[n]
             PROVE  now' <= relay'[a].issued + TTL + 1 + Grace
  BY DEF TakenInTime, Deadline
<1>0. /\ a \in Agents /\ now \in Nat /\ TTL \in Nat /\ Grace \in Nat /\ BackoffSecs \in Nat
      /\ relay[a].issued \in Nat /\ relay'[a].issued \in Nat
      /\ relay'[a].issued >= relay[a].issued /\ now <= relay[a].issued + TTL + 1 + Grace
  BY TimesAreNumbers, LatestStep, NextTyped, FleetLeaseAssumption
  DEF TermsInv, TypeOK, Lease, Time, TimeInv, TakenInTime, Deadline
<1>1. CASE now' = now
  BY <1>0, <1>1
<1>2. ASSUME Tick, now = Deadline(a)
      PROVE  FALSE
  <2>1. ~Heard(a)' /\ lease_is_stale(relay[a])
    BY <1>0, <1>2 DEF Tick, Heard, lease_is_stale, Deadline
  <2>2. PICK n \in Nodes : a \in Keystores[n] /\ now - observed[n][a].issued <= MaxAge
    BY <1>0, <1>2, <2>1 DEF FreeToTakeOver, Deadline
  <2> DEFINE o == observed[n][a]
             g == grace_state[n][a]
             b == takeover_backoff[n][a]
  <2>3. /\ Idle(n) /\ a \notin Hosted(n) /\ o # NoLease /\ o.issued <= relay[a].issued
        /\ a \in Candidates(n) /\ Sighted(n) /\ FirstSeenStale(n, a) = g
        /\ g # Never /\ g <= relay[a].issued + TTL + 1
    BY <1>2, <2>1, <2>2, FreeSees
  <2>4. g \in Nat /\ o.issued \in Nat /\ (b # Never => b \in Nat)
    BY <1>0, <2>3, TimesAreNumbers DEF TermsInv
  <2>5. a \in detect_takeovers(n)
    BY <1>0, <1>2, <2>3, <2>4 DEF detect_takeovers, Deadline
  <2>6. a \notin BackedOff(n)
    <3>1. b # Never => b <= relay[a].issued
      BY DEF TimeInv, LaunchesHeard
    <3> QED
      BY <1>0, <1>2, <2>4, <3>1 DEF BackedOff, FailoverFits, Deadline
  <2>7. Admitted(n, a)
    <3>1. lease_is_stale(o)
      BY <2>3 DEF Candidates
    <3>2. Cardinality(Hosted(n)) < MaxTenants
      BY <2>2, <2>3 DEF FreeToTakeOver
    <3> QED
      BY <2>2, <3>1, <3>2 DEF Admitted
  <2>8. Overdue(n)
    BY <2>3, <2>5, <2>6, <2>7 DEF Overdue, Admissible
  <2> QED
    BY <1>2, <2>8 DEF Tick
<1>3. CASE Tick
  BY <1>0, <1>2, <1>3 DEF Tick, Deadline
<1> QED
  BY <1>1, <1>3, ClockStep

LEMMA TimeStep ==
  ASSUME TermsInv, TimeInv, FreeToTakeOver, FailoverFits, [Next]_vars
  PROVE  TimeInv'
<1> SUFFICES ASSUME network = "timely"
             PROVE  TimeInv'
  BY ClockStep DEF TimeInv
<1>1. \A n \in Nodes : LaunchTimes(n)'
  BY LaunchTimesStep DEF TimeInv
<1>2. KeptIsRelayed' /\ KeptIsLatest' /\ GracePast'
  BY KeptStep, LatestStep, GracePastStep DEF TimeInv, TermsInv
<1>3. HostsHeard' /\ LaunchesHeard' /\ DwellsInTime' /\ TakenInTime'
  BY HostsHeardStep, LaunchesHeardStep, DwellsInTimeStep, TakenInTimeStep
<1> QED
  BY <1>1, <1>2, <1>3 DEF TimeInv

LEMMA TimeStarts == ASSUME Init PROVE TimeInv
<1>1. \A a \in Agents : relayed[a] = {FirstLease(a)} /\ relay[a] = FirstLease(a) /\ relay[a].issued = 0
  BY DEF Init, FirstLease
<1>2. \A n \in Nodes : Idle(n)
  BY DEF Init, Idle
<1>3. now = 0 /\ TTL \in Nat /\ Grace \in Nat /\ Mortal \subseteq Agents
  BY FleetLeaseAssumption DEF Init
<1>4. \A a \in Mortal : Heard(a) /\ now <= Deadline(a)
  BY <1>1, <1>3 DEF Heard, Deadline
<1>5. KeptIsRelayed /\ KeptIsLatest /\ GracePast
  BY <1>1 DEF KeptIsRelayed, KeptIsLatest, GracePast, Init
<1>6. HostsHeard /\ DwellsInTime /\ TakenInTime
  BY <1>4 DEF HostsHeard, DwellsInTime, TakenInTime
<1>7. LaunchesHeard
  BY <1>2, <1>3 DEF LaunchesHeard, Claimed, Init
<1> QED
  BY <1>2, <1>5, <1>6, <1>7 DEF TimeInv, LaunchTimes

LEMMA ImmortalsStep ==
  ASSUME TypeOK, ImmortalsRun, [Next]_vars
  PROVE  ImmortalsRun'
<1> SUFFICES ASSUME NEW a \in Agents \ Mortal
             PROVE  Runs(Home[a], a)'
  BY DEF ImmortalsRun
<1> DEFINE n == Home[a]
<1>0. n \in Nodes /\ tenants[n][a] # NoTenant /\ tenants[n][a].running
  BY FleetLeaseAssumption DEF ImmortalsRun, Runs, Hosted
<1>1. ASSUME NEW k \in Nodes, NEW b \in Agents, Die(k, b)
      PROVE  tenants'[n][a] = tenants[n][a]
  <2>1. b # a
    BY <1>1 DEF Die
  <2> QED
    BY <1>0, <1>1, <2>1 DEF Die, TypeOK
<1>2. ASSUME NEW k \in Nodes, reap_dead(k)
      PROVE  tenants'[n][a] = tenants[n][a]
  BY <1>0, <1>2 DEF reap_dead, TypeOK, Runs, Hosted
<1>3. ASSUME NEW k \in Nodes, LaunchTenant(k)
      PROVE  tenants'[n][a] # NoTenant /\ tenants'[n][a].running
  <2> DEFINE t == [term |-> launching[k].term, claimed |-> launching[k].claimed, running |-> TRUE]
  <2>1. tenants' = [tenants EXCEPT ![k][launching[k].agent] = t] /\ ~Idle(k)
    BY <1>3 DEF LaunchTenant
  <2>2. t # NoTenant
    <3>1. t \in Tenant
      BY <2>1, LaunchTyped DEF Tenant
    <3> QED
      BY <3>1, FleetLeaseAssumption
  <2>3. tenants'[n][a] = tenants[n][a] \/ tenants'[n][a] = t
    BY <1>0, <2>1 DEF TypeOK
  <2> QED
    BY <1>0, <2>2, <2>3
<1>4. CASE UNCHANGED tenants
  BY <1>0, <1>4 DEF Runs, Hosted
<1>5. tenants'[n][a] # NoTenant /\ tenants'[n][a].running => Runs(n, a)'
  BY DEF Runs, Hosted
<1> QED
  BY <1>0, <1>1, <1>2, <1>3, <1>4, <1>5
  DEF Next, Loop, Tick, heartbeat_lease, observe_occupancy, Scan, ClaimLands, latest_lease,
      LaunchFails, LaunchDenied, Abort, vars, nodeVars

LEMMA LatestIsKept ==
  ASSUME TypeOK, KeptIsRelayed, KeptIsLatest, NEW a \in Agents
  PROVE  LastIssued(a) = relay[a].issued
<1> DEFINE T == {e.issued : e \in relayed[a]}
<1>1. relay[a].issued \in T /\ \A e \in relayed[a] : e.issued <= relay[a].issued
  BY DEF KeptIsRelayed, KeptIsLatest
<1>2. \A t \in T : t \in Nat
  BY TimesAreNumbers
<1>3. LastIssued(a) \in T /\ \A e \in relayed[a] : e.issued <= LastIssued(a)
  BY <1>1 DEF LastIssued
<1>4. LastIssued(a) <= relay[a].issued /\ relay[a].issued <= LastIssued(a)
  BY <1>1, <1>3 DEF KeptIsRelayed
<1> QED
  BY <1>1, <1>2, <1>3, <1>4

(* An agent that runs nowhere is taken over in time (the failover scan of the  *)
(* control loop): on a timely network, as long as the nodes that have its      *)
(* keystore are free to, and for delays of which each fits the next, it runs   *)
(* again within a stale lease and a grace window, contested terms or not.      *)
THEOREM FailsOverInTime ==
  ASSUME FailoverFits
  PROVE  Spec /\ []FreeToTakeOver => []FailoverInTime
<1>1. Init => TimeInv /\ ImmortalsRun
  <2>1. Init => ImmortalsRun
    <3> SUFFICES ASSUME Init, NEW a \in Agents \ Mortal
                 PROVE  Runs(Home[a], a)
      BY DEF ImmortalsRun
    <3>1. /\ Home[a] \in Nodes
          /\ tenants[Home[a]][a] = [term |-> 1, claimed |-> 0, running |-> TRUE]
      BY FleetLeaseAssumption DEF Init
    <3>2. tenants[Home[a]][a] # NoTenant
      <4>1. tenants[Home[a]][a] \in Tenant
        BY <3>1, FleetLeaseAssumption DEF Tenant, Term, Time
      <4> QED
        BY <4>1, FleetLeaseAssumption
    <3> QED
      BY <3>1, <3>2 DEF Runs, Hosted
  <2> QED
    BY <2>1, TimeStarts
<1>2. TermsInv /\ TimeInv /\ ImmortalsRun /\ FreeToTakeOver /\ [Next]_vars => (TimeInv /\ ImmortalsRun)'
  BY TimeStep, ImmortalsStep DEF TermsInv
<1>3. TermsInv /\ TimeInv /\ ImmortalsRun => FailoverInTime
  <2> SUFFICES ASSUME TermsInv, TimeInv, ImmortalsRun, NEW a \in Agents, network = "timely",
                      \A n \in Nodes : ~Runs(n, a), \E n \in Nodes : a \in Keystores[n]
               PROVE  now <= LastIssued(a) + TTL + 1 + Grace
    BY DEF FailoverInTime
  <2>1. a \in Mortal
    BY FleetLeaseAssumption DEF ImmortalsRun
  <2>2. now <= Deadline(a)
    BY <2>1 DEF TimeInv, TakenInTime
  <2>3. LastIssued(a) = relay[a].issued
    BY LatestIsKept DEF TermsInv, TimeInv
  <2> QED
    BY <2>2, <2>3 DEF Deadline
<1> QED
  BY <1>1, <1>2, <1>3, TermsAreKnown, PTL DEF Spec
=============================================================================
