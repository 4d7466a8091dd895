----------------------------- MODULE Hibernate -----------------------------
(* Sleep and wake of an agent: the seal ceremony (hibernate/seal.rs), the     *)
(* holders of its key shares (holder.rs, shamir.rs), the state bundle         *)
(* (bundle.rs), the wake-request on the relay (wake.rs) and the lease-gated   *)
(* reconstitution (unseal.rs).                                                *)
(*                                                                            *)
(* A seal splits the seed over the holders, publishes a wake-request and, once*)
(* it sees that exact request on the relay, wipes the seed.  Anybody may then *)
(* fetch the request and ask the holders for a lease and their shares.  The   *)
(* seal's steps and the wakers interleave; the seal may be dropped at each of *)
(* its awaits, and a published event may arrive late or never.                *)
EXTENDS Integers, Sequences, FiniteSets

CONSTANTS
  Shares,      \* SEAL_SHARES, one holder per share
  Threshold,   \* SEAL_THRESHOLD
  Wakers,      \* resume attempts: a lease id and a spawner key each
  Ttl,         \* lease lifetime
  WakeTimes,   \* wake conditions a seal may be given
  MaxTime,     \* bound: the clock
  MaxEpoch,    \* bound: seal epochs, u64::MAX in the code
  MaxDigest,   \* bound: states of the agent that get bundled
  MaxFaults    \* bound: calls that fail, are dropped or die, holders that are lost

Holders == 1 .. Shares

\* Two quorums share a holder (two of three): what the lease fence rests on.
ASSUME HibernateAssumption ==
  /\ Shares \in Nat \ {0} /\ Threshold \in 1 .. Shares /\ Ttl \in Nat
  /\ WakeTimes \subseteq Nat /\ MaxTime \in Nat /\ MaxEpoch \in Nat /\ MaxDigest \in Nat
  /\ \A P, Q \in SUBSET Holders :
       Cardinality(P) >= Threshold /\ Cardinality(Q) >= Threshold => P \cap Q # {}

VARIABLES
  now,       \* the clock of seal, holders and wakers
  phase,     \* where the seal stands
  epoch,     \* the seal epoch its caller will use next
  draft,     \* the wake-request of the running or last seal
  acks,      \* holder acks gathered, in share order
  splits,    \* splits of the seed made: each draws a fresh polynomial
  disk,      \* digest of the one persisted bundle
  holders,   \* [Holders -> the durable watcher record and its share]
  lost,      \* holders that no longer open
  relay,     \* the addressable wake-request event the relay keeps
  wire,      \* events published that have not arrived
  wakers,    \* [Wakers -> the resume attempt]
  faults,    \* what went wrong so far
  loose      \* a publish the seal never confirmed nor revoked may be out there

sealing == <<phase, epoch, draft, acks, splits, disk, faults, loose>>
vars == <<now, phase, epoch, draft, acks, splits, disk, holders, lost,
          relay, wire, wakers, faults, loose>>

Never == MaxTime + 1    \* u64::MAX as a wake condition
NoShare == [epoch |-> -1, split |-> 0, digest |-> 0, wake |-> 0, lease |-> [id |-> 0, exp |-> 0]]
NoLease == NoShare.lease
NoRequest == [wake |-> 0, digest |-> 0, split |-> 0, epoch |-> -1, stamp |-> 0]
Idle == [state |-> "idle", req |-> NoRequest, split |-> 0, exp |-> 0, quorum |-> {}]

Init ==
  /\ now = 0 /\ phase = "awake" /\ epoch = 0 /\ draft = NoRequest /\ acks = <<>>
  /\ splits = 0 /\ disk = 0 /\ loose = FALSE /\ faults = 0
  /\ holders = [h \in Holders |-> NoShare] /\ lost = {}
  /\ relay = NoRequest /\ wire = {}
  /\ wakers = [w \in Wakers |-> Idle]

Fault == faults < MaxFaults /\ faults' = faults + 1

Tick == now < MaxTime /\ now' = now + 1 /\ UNCHANGED <<sealing, holders, lost, relay, wire, wakers>>

----------------------------------------------------------------------------
(* A holder: receive_share and issue_lease.                                   *)

ShareFor(e, k, d, w) == [epoch |-> e, split |-> k, digest |-> d, wake |-> w, lease |-> NoLease]

\* A share of a superseded epoch is refused, an equal epoch leaves the record
\* and its lease alone, a higher one replaces them.
Accepts(h, share) == h \notin lost /\ share.epoch >= holders[h].epoch
receive_share(h, share) == IF share.epoch = holders[h].epoch THEN holders[h] ELSE share

ack_from(r) == [epoch |-> r.epoch, split |-> r.split, digest |-> r.digest]

\* The single-live-lease fence.
\* mutation: the lease is taken for expired one second early.
Free_Early(lease, w) == lease.exp <= now + 1 \/ lease.id = w
Free(lease, w) == lease.exp <= now \/ lease.id = w
Leases(h, w) ==
  /\ h \notin lost /\ holders[h] # NoShare
  /\ now >= holders[h].wake
  /\ Free(holders[h].lease, w)
issue_lease(hs, w) ==
  [h \in Holders |-> IF h \in hs THEN [holders[h] EXCEPT !.lease = [id |-> w, exp |-> now + Ttl]]
                     ELSE holders[h]]

----------------------------------------------------------------------------
(* seal: up to the publish nothing is public, a failure aborts.               *)

\* The caller keeps the seed and the next epoch; the request and the acks are
\* locals of the call.
Aborted(next) == phase' = "awake" /\ epoch' = next /\ draft' = NoRequest /\ acks' = <<>>

\* quiesce or persist_bundle fails; the rename may have happened all the same.
Unready ==
  /\ phase = "awake" /\ epoch + 2 <= MaxEpoch /\ Fault
  /\ Aborted(epoch + 1)
  /\ disk' \in {disk, disk + 1} /\ disk' <= MaxDigest
  /\ UNCHANGED <<now, splits, holders, lost, relay, wire, wakers, loose>>

\* Steps 1 to 3: the frozen state, unchanged since the last seal or not, is
\* persisted over the previous bundle and the seed is split.
Quiesce ==
  /\ phase = "awake" /\ epoch + 2 <= MaxEpoch
  /\ \E d \in {disk, disk + 1} \cap (1 .. MaxDigest), w \in WakeTimes :
       /\ disk' = d
       /\ draft' = [wake |-> w, digest |-> d, split |-> splits + 1, epoch |-> epoch,
                    stamp |-> 2 * (splits + 1)]
  /\ splits' = splits + 1 /\ acks' = <<>> /\ phase' = "distribute"
  /\ UNCHANGED <<now, faults, epoch, holders, lost, relay, wire, wakers, loose>>

Upcoming(s) == Len(s) + 1
DraftShare == ShareFor(draft.epoch, draft.split, draft.digest, draft.wake)

\* Step 4, one holder.
Distribute ==
  /\ phase = "distribute" /\ Len(acks) < Shares
  /\ LET h == Upcoming(acks) IN
       /\ Accepts(h, DraftShare)
       /\ holders' = [holders EXCEPT ![h] = receive_share(h, DraftShare)]
       /\ acks' = Append(acks, ack_from(holders'[h]))
  /\ UNCHANGED <<now, faults, phase, epoch, draft, splits, disk, lost, relay, wire, wakers, loose>>

\* A holder refuses, or its write fails with or without reaching the disk.
MayWrite(h, share) == holders' \in {holders, [holders EXCEPT ![h] = receive_share(h, share)]}

DistributeFails ==
  /\ phase = "distribute" /\ Len(acks) < Shares
  /\ LET h == Upcoming(acks) IN
       \/ ~Accepts(h, DraftShare) /\ UNCHANGED <<holders, faults>>
       \/ Accepts(h, DraftShare) /\ Fault /\ MayWrite(h, DraftShare)
  /\ Aborted(draft.epoch + 1)
  /\ UNCHANGED <<now, splits, disk, lost, relay, wire, wakers, loose>>

\* mutation: the acks' commitments are not compared.
acks_match_Loose == \A i \in 1 .. Shares :
  acks[i].epoch = draft.epoch /\ acks[i].digest = draft.digest
acks_match == \A i \in 1 .. Shares :
  acks[i] = [epoch |-> draft.epoch, split |-> draft.split, digest |-> draft.digest]

\* Step 5: the bundle reads back, every ack commits to this seal.
LocalVerify ==
  /\ phase = "distribute" /\ Len(acks) = Shares
  /\ LET verified == acks_match /\ disk = draft.digest IN
       \/ verified /\ phase' = "publish" /\ acks' = <<>> /\ UNCHANGED <<epoch, draft, faults>>
       \/ verified /\ Fault /\ Aborted(draft.epoch + 1)
       \/ ~verified /\ Aborted(draft.epoch + 1) /\ UNCHANGED faults
  /\ UNCHANGED <<now, splits, disk, holders, lost, relay, wire, wakers, loose>>

----------------------------------------------------------------------------
(* seal: publish, confirm, revoke.                                            *)

\* The relay keeps the newest event; what is still on the way and older can
\* no longer matter.
Arrived(e) == relay' = e /\ wire' = {f \in wire : f.stamp > e.stamp}
publish(e) ==
  \/ Arrived(e)
  \/ wire' = wire \cup {e} /\ UNCHANGED relay

Publish ==
  /\ phase = "publish" /\ phase' = "confirm"
  /\ publish(draft)
  /\ UNCHANGED <<now, faults, epoch, draft, acks, splits, disk, holders, lost, wakers, loose>>

Arrives ==
  /\ \E e \in wire : Arrived(e)
  /\ UNCHANGED <<now, sealing, holders, lost, wakers>>

\* The whole request is compared, not only its digest.
Confirmed == relay = draft

\* The point of no return: the seed is wiped.
Confirm ==
  /\ phase = "confirm" /\ Confirmed
  /\ phase' = "asleep"
  /\ UNCHANGED <<now, faults, epoch, draft, acks, splits, disk, holders, lost, relay, wire, wakers, loose>>

\* No attempt saw the request: it may be late, or the relay unreachable.
Unconfirmed ==
  /\ phase = "confirm"
  /\ phase' = "revoke" /\ splits' = splits + 1
  /\ UNCHANGED <<now, faults, epoch, draft, acks, disk, holders, lost, relay, wire, wakers, loose>>

FrozenShare == ShareFor(draft.epoch + 1, splits, draft.digest, Never)

\* One holder of the revoke; after the last one the seal is neutralised.
Freeze ==
  /\ phase = "revoke" /\ Len(acks) < Shares
  /\ LET h == Upcoming(acks) IN
       /\ Accepts(h, FrozenShare)
       /\ holders' = [holders EXCEPT ![h] = receive_share(h, FrozenShare)]
       /\ IF h = Shares
          THEN phase' = "tombstone" /\ loose' = FALSE /\ acks' = <<>>
          ELSE acks' = Append(acks, ack_from(holders'[h])) /\ UNCHANGED <<phase, loose>>
  /\ UNCHANGED <<now, epoch, draft, splits, disk, lost, relay, wire, wakers, faults>>

\* RevokeFailed, the outcome its caller must resolve.
FreezeFails ==
  /\ phase = "revoke" /\ Len(acks) < Shares
  /\ LET h == Upcoming(acks) IN
       \/ ~Accepts(h, FrozenShare) /\ UNCHANGED <<holders, faults>>
       \/ Accepts(h, FrozenShare) /\ Fault /\ MayWrite(h, FrozenShare)
  /\ phase' = "tombstone" /\ loose' = TRUE /\ acks' = <<>>
  /\ UNCHANGED <<now, epoch, draft, splits, disk, lost, relay, wire, wakers>>

TombstoneOf(r) == [wake |-> Never, digest |-> r.digest, split |-> r.split,
                   epoch |-> r.epoch + 1, stamp |-> r.stamp + 1]

Tombstone ==
  /\ phase = "tombstone"
  /\ publish(TombstoneOf(draft))
  /\ Aborted(draft.epoch + 2)
  /\ UNCHANGED <<now, faults, splits, disk, holders, lost, wakers, loose>>

\* The future is dropped at an await, while it publishes or polls; its caller
\* never learns the next epoch.
Cancelled ==
  /\ Fault
  /\ \/ phase = "publish" /\ publish(draft) /\ loose' = TRUE
     \/ phase = "confirm" /\ UNCHANGED <<relay, wire>> /\ loose' = TRUE
     \/ phase = "tombstone" /\ publish(TombstoneOf(draft)) /\ UNCHANGED loose
  /\ \E next \in {draft.epoch, draft.epoch + 1} : Aborted(next)
  /\ UNCHANGED <<now, splits, disk, holders, lost, wakers>>

----------------------------------------------------------------------------
(* unseal: fetch the request, later reconstitute from it.                     *)

Fetch(w) ==
  /\ wakers[w] = Idle /\ relay # NoRequest
  /\ wakers' = [wakers EXCEPT ![w].state = "fetched", ![w].req = relay]
  /\ UNCHANGED <<now, sealing, holders, lost, relay, wire>>

\* Holders that grant a lease, and those of them that guard this request's
\* digest: a lease is written by every one.
Asked(w) == {h \in Holders : Leases(h, w)}
gather_leases(w, digest) == {h \in Asked(w) : holders[h].digest = digest}
Enough(hs) == Cardinality(hs) >= Threshold
\* The shares that get released: the first of the granted, in roster order.
First(hs) == {q \in SUBSET hs : Cardinality(q) = Threshold /\ \A h \in q, g \in hs \ q : h < g}

\* The share is one the request commits to.
\* mutation: any share of the same digest will do.
Bound_Unbound(h, r) == holders[h].digest = r.digest
Bound(h, r) == holders[h].split = r.split /\ holders[h].epoch = r.epoch

Reconstituted(w) ==
  LET r == wakers[w].req IN
  /\ \E q \in First(gather_leases(w, r.digest)) : \A h \in q : Bound(h, r)
  /\ disk = r.digest

Wake(w) ==
  /\ wakers[w].state = "fetched" /\ Reconstituted(w)
  /\ holders' = issue_lease(Asked(w), w)
  /\ wakers' = [wakers EXCEPT ![w].state = "live", ![w].exp = now + Ttl,
                              ![w].split = wakers[w].req.split,
                              ![w].quorum = gather_leases(w, wakers[w].req.digest)]
  /\ UNCHANGED <<now, sealing, lost, relay, wire>>

\* The attempt fails at the quorum, a share or the bundle: its leases stay.
Over(w) == wakers' = [wakers EXCEPT ![w] = [Idle EXCEPT !.state = "over"]]
WakeFails(w) ==
  /\ wakers[w].state = "fetched" /\ ~Reconstituted(w)
  /\ holders' = issue_lease(Asked(w), w)
  /\ Over(w)
  /\ UNCHANGED <<now, sealing, lost, relay, wire>>

\* The process dies on the way: the leases it got so far stay.
WakerDies(w) ==
  /\ wakers[w].state = "fetched" /\ Fault
  /\ \E n \in 1 .. Shares : holders' = issue_lease(Asked(w) \cap 1 .. n, w)
  /\ Over(w)
  /\ UNCHANGED <<now, phase, epoch, draft, acks, splits, disk, lost, relay, wire, loose>>

is_live(w) == wakers[w].state = "live" /\ now < wakers[w].exp

Renew(w) ==
  /\ is_live(w)
  /\ LET granted == gather_leases(w, wakers[w].req.digest) IN
       /\ holders' = issue_lease(Asked(w), w)
       /\ wakers' = IF Enough(granted)
                    THEN [wakers EXCEPT ![w].exp = now + Ttl, ![w].quorum = granted]
                    ELSE wakers
  /\ UNCHANGED <<now, sealing, lost, relay, wire>>

HolderLost ==
  /\ Fault
  /\ \E h \in Holders \ lost : lost' = lost \cup {h}
  /\ UNCHANGED <<now, phase, epoch, draft, acks, splits, disk, holders, relay, wire, wakers, loose>>

Seal ==
  \/ Unready \/ Quiesce \/ Distribute \/ DistributeFails \/ LocalVerify
  \/ Publish \/ Confirm \/ Unconfirmed \/ Freeze \/ FreezeFails \/ Tombstone \/ Cancelled

Next ==
  \/ Seal \/ Tick \/ Arrives \/ HolderLost
  \/ \E w \in Wakers : Fetch(w) \/ Wake(w) \/ WakeFails(w) \/ WakerDies(w) \/ Renew(w)

Spec == Init /\ [][Next]_vars

----------------------------------------------------------------------------
(* Properties.                                                                *)

Requests == [wake : Nat, digest : Nat, split : Nat, epoch : Int, stamp : Nat]
Commitments == [epoch : Int, split : Nat, digest : Nat]
Records == [epoch : Int, split : Nat, digest : Nat, wake : Nat,
            lease : [id : Wakers \cup {0}, exp : Nat]]
Attempts == [state : {"idle", "fetched", "live", "over"}, req : Requests,
             split : Nat, exp : Nat, quorum : SUBSET Holders]

\* Every variable has its type.
TypeOK ==
  /\ now \in Nat /\ epoch \in Int /\ splits \in Nat /\ disk \in Nat /\ faults \in Nat
  /\ phase \in {"awake", "distribute", "publish", "confirm", "revoke", "tombstone", "asleep"}
  /\ draft \in Requests /\ relay \in Requests /\ wire \subseteq Requests
  /\ acks \in Seq(Commitments) /\ Len(acks) <= Shares
  /\ holders \in [Holders -> Records] /\ wakers \in [Wakers -> Attempts]
  /\ lost \subseteq Holders /\ loose \in BOOLEAN

\* A seal that wiped its seed left an agent that can come back, whatever
\* attempts failed, were revoked or were dropped before it: the relay keeps its
\* request, the bundle on disk is the one it commits to, and every holder that
\* still opens guards a share of its split under its wake condition.  (seal,
\* acks_match, confirm_live; receive_share keeps the record of an equal epoch.)
Guards(h) == holders[h].epoch = draft.epoch /\ holders[h].split = draft.split
             /\ holders[h].digest = draft.digest /\ holders[h].wake = draft.wake
SleepIsRecoverable ==
  phase = "asleep" => relay = draft /\ disk = draft.digest /\ \A h \in Holders \ lost : Guards(h)

\* Two wakers never both have live authority from one seal, through leases
\* that expire, partial grants left by failed attempts, renewals over another
\* quorum and a lost holder.  (issue_lease's fence, gather_leases' quorum,
\* aggregate_lease's expiry, LeasedRuntime::is_live.)
OneLiveRuntime == \A v, w \in Wakers :
  is_live(v) /\ is_live(w) /\ wakers[v].split = wakers[w].split => v = w

\* No waker starts a runtime while the agent is awake with no publish left
\* unsettled: not from a request it fetched before the revoke, from one that
\* arrives late, from a tombstone, or from the half-distributed shares of a
\* later seal that aborted.  (seal.rs: no abort path leaves a live wake-request
\* and releasing holders.)
Starts(w) == wakers[w].state # "live" /\ wakers'[w].state = "live"
AwakeNotResurrected ==
  [][\A w \in Wakers : Starts(w) => loose \/ phase \in {"confirm", "revoke", "asleep"}]_vars

\* A seal that returned an abort other than RevokeFailed left the agent alone:
\* no runtime of it is live.  (seal.rs 35-39, "so to leave NOTHING
\* resurrectable".)  A waker may have come between publish and revoke.
StaysAwakeAlone ==
  phase = "awake" /\ ~loose => \A w \in Wakers : ~is_live(w)

\* No abort path leaves a request whose holders release: also not the clean
\* abort of a seal that follows a dropped one.  (seal.rs 38-39, 290.)
Releasing(r) == {h \in Holders \ lost : Bound(h, r) /\ holders[h].wake < Never
                                         /\ holders[h].digest = r.digest}
AbortLeavesNothing ==
  phase' = "awake" /\ phase = "distribute" => ~(Enough(Releasing(relay)) /\ disk = relay.digest)
CleanAborts == [][AbortLeavesNothing]_vars
=============================================================================
