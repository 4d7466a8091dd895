----------------------------- MODULE FleetLease -----------------------------
(* A fleet of nodes that share agents.  Each agent has one lease on the relay, *)
(* an addressable event that its host heartbeats; every node folds the leases  *)
(* it is sent into its own view, and takes an agent over when its lease has    *)
(* been stale for a while.  The control loop of a node is one task: it reaps,  *)
(* heartbeats, observes, or scans, and does none of them while a launch is     *)
(* awaited.                                                                    *)
(*                                                                             *)
(* Time is one clock read by every node.  The relay keeps, of the events of an *)
(* agent, one with the latest issue time; what it accepted may reach a node    *)
(* late, twice, in any order, or never.  An event the relay does not keep      *)
(* reaches nobody.                                                             *)
EXTENDS Integers, FiniteSets

CONSTANTS
  Nodes, Agents,
  Home,         \* the node that hosts an agent at first, at term 1
  Keystores,    \* the agents whose quorum a node can load (keystore_loadable_at)
  Mortal,       \* the agents whose process may exit
  Networks,     \* "free": anything may be late or lost; "timely": see Overdue
  Every,        \* LEASE_HEARTBEAT_SECS
  TTL,          \* LEASE_TTL_SECS
  Grace,        \* takeover_grace
  MaxAge,       \* max_lease_age
  Settle,       \* confirm_settle
  BackoffSecs,  \* takeover_backoff_secs
  MaxTenants,   \* max_tenants
  MaxNow,       \* bound: the last second
  NoLease, NoTenant, NoLaunch, Never

Time == 0..MaxNow
Term == Nat \ {0}
Lease == [holder: Nodes, term: Term, issued: Time]
Tenant == [term: Term, claimed: Time, running: BOOLEAN]
Stages == {"claim", "settle", "judge"}
Launch == [agent: Agents, term: Term, issued: Time, stage: Stages, claimed: Time,
           surviving: Lease \cup {NoLease}]

ASSUME FleetLeaseAssumption ==
  /\ Home \in [Agents -> Nodes] /\ Keystores \in [Nodes -> SUBSET Agents]
  /\ Mortal \subseteq Agents /\ Networks \subseteq {"free", "timely"}
  /\ {Every, TTL, Grace, MaxAge, Settle, BackoffSecs, MaxTenants, MaxNow} \subseteq Nat
  /\ NoLease \notin Lease /\ NoTenant \notin Tenant /\ NoLaunch \notin Launch
  /\ Never \notin Time

VARIABLES
  now, network,
  relay,             \* the event of each agent that the relay keeps
  relayed,           \* every event the relay accepted and sent on
  observed,          \* FleetLeaseObserver: the latest lease each node has folded in
  grace_state,       \* since when a node's scans have seen a lease stale
  takeover_backoff,  \* when a node's takeover last failed
  tenants,           \* FleetSupervisor::tenants; claimed is when the claim landed
  launching          \* the launch a node's loop is awaiting, if any

nodeVars == <<observed, grace_state, takeover_backoff, tenants, launching>>
vars == <<now, network, relay, relayed, nodeVars>>

TypeOK ==
  /\ now \in Time /\ network \in Networks
  /\ relay \in [Agents -> Lease]
  /\ relayed \in [Agents -> SUBSET Lease]
  /\ observed \in [Nodes -> [Agents -> Lease \cup {NoLease}]]
  /\ grace_state \in [Nodes -> [Agents -> Time \cup {Never}]]
  /\ takeover_backoff \in [Nodes -> [Agents -> Time \cup {Never}]]
  /\ tenants \in [Nodes -> [Agents -> Tenant \cup {NoTenant}]]
  /\ launching \in [Nodes -> Launch \cup {NoLaunch}]

FirstLease(a) == [holder |-> Home[a], term |-> 1, issued |-> 0]

Init ==
  /\ now = 0 /\ network \in Networks
  /\ relay = [a \in Agents |-> FirstLease(a)]
  /\ relayed = [a \in Agents |-> {FirstLease(a)}]
  /\ observed = [n \in Nodes |-> [a \in Agents |-> NoLease]]
  /\ grace_state = [n \in Nodes |-> [a \in Agents |-> Never]]
  /\ takeover_backoff = [n \in Nodes |-> [a \in Agents |-> Never]]
  /\ tenants = [n \in Nodes |-> [a \in Agents |->
       IF Home[a] = n THEN [term |-> 1, claimed |-> 0, running |-> TRUE] ELSE NoTenant]]
  /\ launching = [n \in Nodes |-> NoLaunch]
-----------------------------------------------------------------------------
Idle(n) == launching[n] = NoLaunch

(* A tenant whose process has exited is hosted until it is reaped.             *)
Hosted(n) == {a \in Agents : tenants[n][a] # NoTenant}
Runs(n, a) == a \in Hosted(n) /\ tenants[n][a].running

lease_is_stale(l) == now > l.issued + TTL

(* observe_occupancy: a newer term, or a later event of the same holder.       *)
Accepts_Latest(l, e) ==  \* mutation: the latest event counts, whatever its term
  l # NoLease => e.issued > l.issued

Accepts(l, e) ==
  l # NoLease => e.term > l.term \/ (e.holder = l.holder /\ e.issued > l.issued)

(* An addressable event replaces an older one; of two of the same second the   *)
(* relay keeps the one with the lower id.                                      *)
Publish(a, e) ==
  \/ /\ e.issued >= relay[a].issued
     /\ relay' = [relay EXCEPT ![a] = e]
     /\ relayed' = [relayed EXCEPT ![a] = @ \cup {e}]
  \/ /\ e.issued <= relay[a].issued
     /\ UNCHANGED <<relay, relayed>>

-----------------------------------------------------------------------------
(* The process of a tenant exits.                                              *)
Die(n, a) ==
  /\ a \in Mortal /\ Runs(n, a)
  /\ tenants' = [tenants EXCEPT ![n][a].running = FALSE]
  /\ UNCHANGED <<now, network, relay, relayed, observed, grace_state, takeover_backoff,
                 launching>>

reap_dead(n) ==
  /\ Idle(n)
  /\ \E a \in Hosted(n) : ~Runs(n, a)
  /\ tenants' = [tenants EXCEPT ![n] =
       [a \in Agents |-> IF Runs(n, a) THEN tenants[n][a] ELSE NoTenant]]
  /\ UNCHANGED <<now, network, relay, relayed, observed, grace_state, takeover_backoff,
                 launching>>

(* An exited tenant's lease is left to go stale.                               *)
Beating_Static(n) ==  \* mutation: only the tenants launched at first
  {a \in Agents : Runs(n, a) /\ tenants[n][a].term = 1}

Beating(n) == {a \in Agents : Runs(n, a)}

(* A heartbeat claims the lease anew, at the term the tenant was launched at.  *)
(* heartbeat_leases takes this step for its tenants in turn; each claim is     *)
(* awaited and may fail alone, which is the step not taken.                    *)
heartbeat_lease(n, a) ==
  /\ Idle(n) /\ a \in Beating(n)
  /\ Publish(a, [holder |-> n, term |-> tenants[n][a].term, issued |-> now])
  /\ UNCHANGED <<now, network, nodeVars>>

observe_occupancy(n, a) ==
  /\ Idle(n)
  /\ \E e \in relayed[a] :
       /\ Accepts(observed[n][a], e)
       /\ observed' = [observed EXCEPT ![n][a] = e]
  /\ UNCHANGED <<now, network, relay, relayed, grace_state, takeover_backoff, tenants,
                 launching>>
-----------------------------------------------------------------------------
Seen(n) == {a \in Agents : observed[n][a] # NoLease}

(* The observer-blind fail-safe: something is fresh, so the link delivers.     *)
Sighted(n) == \E a \in Seen(n) : ~lease_is_stale(observed[n][a])

Candidates(n) ==
  {a \in Seen(n) \ Hosted(n) :
     lease_is_stale(observed[n][a]) /\ now - observed[n][a].issued <= MaxAge}

FirstSeenStale_Anew(n, a) ==  \* mutation: the dwell starts anew with every scan
  now

FirstSeenStale(n, a) == IF grace_state[n][a] = Never THEN now ELSE grace_state[n][a]

KeepStale_Sticky(n) ==  \* mutation: a lease that recovers keeps its dwell
  [a \in Agents |-> IF a \in Candidates(n) THEN FirstSeenStale(n, a) ELSE grace_state[n][a]]

KeepStale(n) ==
  [a \in Agents |-> IF a \in Candidates(n) THEN FirstSeenStale(n, a) ELSE Never]

detect_takeovers(n) ==
  {a \in Candidates(n) : Sighted(n) /\ now - FirstSeenStale(n, a) >= Grace}

(* The retain of the scan: entries past their window are dropped.              *)
BackedOff(n) ==
  {a \in Agents : takeover_backoff[n][a] # Never
                  /\ now - takeover_backoff[n][a] < BackoffSecs}

(* admit_takeover; its last gate is a fresh lease of another node.             *)
Admitted(n, a) ==
  /\ a \in Keystores[n]
  /\ Cardinality(Hosted(n)) < MaxTenants
  /\ ~(~lease_is_stale(observed[n][a]) /\ observed[n][a].holder # n)

Admissible(n) == {a \in detect_takeovers(n) \ BackedOff(n) : Admitted(n, a)}

(* One pass of the failover scan, up to the claim of the one takeover it       *)
(* admits: the first in the order of the agents, which is left open here.      *)
Scan(n) ==
  /\ Idle(n)
  /\ grace_state' = [grace_state EXCEPT ![n] = IF Sighted(n) THEN KeepStale(n) ELSE @]
  /\ takeover_backoff' = [takeover_backoff EXCEPT ![n] =
       [a \in Agents |-> IF a \in BackedOff(n) THEN @[a] ELSE Never]]
  /\ \/ /\ Admissible(n) = {}
        /\ UNCHANGED launching
     \/ \E a \in Admissible(n) :
          launching' = [launching EXCEPT ![n] =
            [agent |-> a, term |-> observed[n][a].term + 1, issued |-> now,
             stage |-> "claim", claimed |-> now, surviving |-> NoLease]]
  /\ UNCHANGED <<now, network, relay, relayed, observed, tenants>>
-----------------------------------------------------------------------------
(* The claim reaches the relay, and the launch waits for rivals' claims.       *)
ClaimLands(n) ==
  LET l == launching[n] IN
  /\ ~Idle(n) /\ l.stage = "claim"
  /\ Publish(l.agent, [holder |-> n, term |-> l.term, issued |-> l.issued])
  /\ launching' = [launching EXCEPT ![n].stage = "settle", ![n].claimed = now]
  /\ UNCHANGED <<now, network, observed, grace_state, takeover_backoff, tenants>>

(* The relay answers the re-read; on a free network it may answer nothing.     *)
latest_lease_Eager(n) ==  \* mutation: the re-read waits for no rivals
  LET l == launching[n] IN
  /\ ~Idle(n) /\ l.stage = "settle"
  /\ launching' = [launching EXCEPT ![n].stage = "judge", ![n].surviving = relay[l.agent]]
  /\ UNCHANGED <<now, network, relay, relayed, observed, grace_state, takeover_backoff,
                 tenants>>

latest_lease(n) ==
  LET l == launching[n] IN
  /\ ~Idle(n) /\ l.stage = "settle" /\ now >= l.claimed + Settle
  /\ \E s \in {relay[l.agent]} \cup (IF network = "free" THEN {NoLease} ELSE {}) :
       launching' = [launching EXCEPT ![n].stage = "judge", ![n].surviving = s]
  /\ UNCHANGED <<now, network, relay, relayed, observed, grace_state, takeover_backoff,
                 tenants>>

confirm_takeover_win(s, term, n) == s # NoLease /\ s.term = term /\ s.holder = n

(* The allocation is released and the agent backs off, from the scan's second. *)
Abort(n) ==
  /\ launching' = [launching EXCEPT ![n] = NoLaunch]
  /\ takeover_backoff' = [takeover_backoff EXCEPT ![n][launching[n].agent] =
       launching[n].issued]
  /\ UNCHANGED <<now, network, observed, grace_state, tenants>>

(* The claim fails, although the relay may have it, or the launcher fails.     *)
LaunchFails(n) ==
  LET l == launching[n] IN
  /\ ~Idle(n) /\ network = "free"
  /\ \/ l.stage = "claim"
          /\ Publish(l.agent, [holder |-> n, term |-> l.term, issued |-> l.issued])
     \/ l.stage \in {"claim", "judge"} /\ UNCHANGED <<relay, relayed>>
  /\ Abort(n)

LaunchDenied(n) ==
  LET l == launching[n] IN
  /\ ~Idle(n) /\ l.stage = "judge" /\ ~confirm_takeover_win(l.surviving, l.term, n)
  /\ Abort(n)
  /\ UNCHANGED <<relay, relayed>>

LaunchTenant(n) ==
  LET l == launching[n] IN
  /\ ~Idle(n) /\ l.stage = "judge" /\ confirm_takeover_win(l.surviving, l.term, n)
  /\ tenants' = [tenants EXCEPT ![n][l.agent] =
       [term |-> l.term, claimed |-> l.claimed, running |-> TRUE]]
  /\ launching' = [launching EXCEPT ![n] = NoLaunch]
  /\ takeover_backoff' = [takeover_backoff EXCEPT ![n][l.agent] = Never]
  /\ UNCHANGED <<now, network, relay, relayed, observed, grace_state>>
-----------------------------------------------------------------------------
(* A second ends on a timely network only when every node has done what its    *)
(* loop had to do in it: the ticks of its arms, the events it was sent, and    *)
(* each step of a launch as soon as it can be taken.                           *)
Overdue(n) ==
  IF Idle(n)
    THEN \/ \E a \in Hosted(n) : ~Runs(n, a)
         \/ \E a \in Beating(n) : \A e \in relayed[a] :
              e.holder = n /\ e.term = tenants[n][a].term => e.issued + Every <= now
         \/ \E a \in Agents : \E e \in relayed[a] : Accepts(observed[n][a], e)
         \/ Sighted(n) /\ grace_state[n] # KeepStale(n)
         \/ Admissible(n) # {}
    ELSE launching[n].stage # "settle" \/ now >= launching[n].claimed + Settle

Tick ==
  /\ now < MaxNow
  /\ network = "timely" => \A n \in Nodes : ~Overdue(n)
  /\ now' = now + 1
  /\ UNCHANGED <<network, relay, relayed, nodeVars>>

Loop(n) ==
  \/ reap_dead(n)
  \/ \E a \in Agents : heartbeat_lease(n, a) \/ observe_occupancy(n, a)
  \/ Scan(n)
  \/ ClaimLands(n) \/ latest_lease(n)
  \/ LaunchFails(n) \/ LaunchDenied(n) \/ LaunchTenant(n)

Next ==
  \/ Tick
  \/ \E n \in Nodes : Loop(n) \/ \E a \in Agents : Die(n, a)

Spec == Init /\ [][Next]_vars
-----------------------------------------------------------------------------
(* The read-after-write fence of provision_and_launch: two nodes that were     *)
(* launched at one term claimed it at least the settling pause apart, so one   *)
(* of any two claims that race within the pause is denied its launch.          *)
RaceSettled ==
  \A n, m \in Nodes, a \in Agents :
    n # m /\ a \in Hosted(n) /\ a \in Hosted(m) /\ tenants[n][a].term = tenants[m][a].term
      => \/ tenants[m][a].claimed >= tenants[n][a].claimed + Settle
         \/ tenants[n][a].claimed >= tenants[m][a].claimed + Settle

(* The observed term never moves backward, and within a term neither the       *)
(* holder changes nor the issue time falls back, although observe_occupancy    *)
(* compares no terms for events of one holder.                                 *)
ObservedForward ==
  [][\A n \in Nodes, a \in Agents : observed[n][a] # NoLease =>
       LET l == observed[n][a]  e == observed'[n][a] IN
       /\ e # NoLease /\ e.term >= l.term
       /\ e.term = l.term => e.holder = l.holder /\ e.issued >= l.issued]_vars

(* No two nodes claimed one term of the agent.                                 *)
Uncontested(a) == \A e, f \in relayed[a] : e.term = f.term => e.holder = f.holder

(* On a timely network an agent none of whose terms was contested runs on one  *)
(* node, although heartbeats stall while a node launches and hosts die again   *)
(* and again.                                                                  *)
SingleHost ==
  network = "timely" =>
    \A a \in Agents : Uncontested(a) =>
      \A n, m \in Nodes : Runs(n, a) /\ Runs(m, a) => n = m

(* On a timely network no node claims the lease of an agent that runs, unless  *)
(* a term of it was contested (detect_takeovers against the heartbeat).        *)
NoFalseTakeover ==
  [][\A n \in Nodes : network = "timely" /\ Idle(n) /\ ~Idle(n)' =>
       LET a == launching'[n].agent IN
       Uncontested(a) => \A m \in Nodes : ~Runs(m, a)]_vars

(* On a timely network a node that takes an uncontested agent over from        *)
(* another waits until its lease has been stale for the whole grace window     *)
(* (grace_state, threaded across the scans).                                   *)
TakeoverWaits ==
  \A n \in Nodes : network = "timely" /\ ~Idle(n) =>
    LET a == launching[n].agent  l == observed[n][a] IN
    Uncontested(a) /\ l.holder # n => launching[n].issued > l.issued + TTL + Grace

LastIssued(a) ==
  CHOOSE t \in {e.issued : e \in relayed[a]} : \A e \in relayed[a] : e.issued <= t

(* On a timely network that delivers some lease, an agent that runs nowhere    *)
(* runs again within a stale lease, a grace window and a settling pause, if a  *)
(* node has its keystore and room (the failover scan of the control loop).     *)
FailoverInTime ==
  \A a \in Agents :
    /\ network = "timely" /\ Mortal # Agents
    /\ \A n \in Nodes : ~Runs(n, a)
    /\ \E n \in Nodes : a \in Keystores[n] /\ Cardinality(Hosted(n)) < MaxTenants
    => now <= LastIssued(a) + TTL + 1 + Grace

(* What the lease is said to give (spawn.rs, "no-split-brain"): on a network   *)
(* that delivers in time no agent runs twice.                                  *)
NoSplitBrain ==
  network = "timely" =>
    \A n, m \in Nodes, a \in Agents : Runs(n, a) /\ Runs(m, a) => n = m
=============================================================================
