--------------------------- MODULE HibernateProofs ---------------------------
(* Proofs about Hibernate: its types, that a sleeping agent can come back, that*)
(* one seal never has two live runtimes and that an agent which stays awake is *)
(* not resurrected.                                                            *)
EXTENDS Hibernate, FiniteSetTheorems, TLAPS

\* Where the seal stands: the split it works with, the bundle it committed to,
\* and events that are never newer than the last split.
Planned == phase \in {"distribute", "publish", "confirm", "asleep"}
Revoking == phase \in {"revoke", "tombstone"}
Course ==
  /\ Planned => draft.split = splits /\ splits >= 1
  /\ Revoking => draft.split + 1 = splits /\ draft.split >= 1
  /\ Planned \/ Revoking => /\ draft.stamp = 2 * draft.split /\ disk = draft.digest
  /\ phase \in {"publish", "confirm"} => acks = <<>>
  /\ phase = "revoke" => Len(acks) < Shares
  /\ relay.stamp <= 2 * splits /\ \A e \in wire : e.stamp <= 2 * splits /\ e.stamp > relay.stamp
  /\ phase \in {"distribute", "publish"} =>
       relay.stamp < 2 * splits /\ \A e \in wire : e.stamp < 2 * splits
  /\ Revoking => relay.stamp <= draft.stamp /\ \A e \in wire : e.stamp <= draft.stamp
  /\ phase = "asleep" => relay = draft

\* Who holds what while a seal is under way.
Frozen(h) == holders[h].split = splits /\ holders[h].epoch = draft.epoch + 1
Handed ==
  /\ \A h \in Holders : holders[h].split <= splits
  /\ phase = "distribute" => \A h \in Holders :
       /\ h > Len(acks) => holders[h].split < draft.split
       /\ h <= Len(acks) => /\ acks[h] = ack_from(holders[h])
                            /\ holders[h].split < draft.split \/ Guards(h)
  /\ phase \in {"publish", "confirm", "asleep"} => \A h \in Holders : Guards(h)
  /\ phase = "revoke" => \A h \in Holders :
       (h > Len(acks) => Guards(h)) /\ (h <= Len(acks) => Frozen(h))
  /\ phase = "tombstone" => \A h \in Holders : holders[h].split >= draft.split

\* A request anybody may have was guarded by every holder when it was
\* published, and is behind all of them once its seal is settled.
OutThere == wire \cup {relay} \cup {wakers[w].req : w \in Wakers}
Quiet == ~loose /\ phase \in {"awake", "distribute", "publish", "tombstone"}
Reached ==
  /\ \A r \in OutThere : r = NoRequest \/ r.split \in 1 .. splits
  /\ \A w \in Wakers : wakers[w].state \in {"fetched", "live"} => wakers[w].req # NoRequest
  /\ \A r \in OutThere, h \in Holders : holders[h].split >= r.split
  /\ Quiet => \A r \in OutThere, h \in Holders : r # NoRequest => holders[h].split > r.split
  /\ Quiet /\ phase = "tombstone" => \A h \in Holders : holders[h].split > draft.split
  /\ Revoking => \A r \in OutThere : r.split <= draft.split
  /\ phase \in {"distribute", "publish"} => \A r \in OutThere : r.split < draft.split

\* The holders of a live runtime's quorum lease to it or guard a later split.
Fenced ==
  \A w \in Wakers : wakers[w].state = "live" =>
    /\ Enough(wakers[w].quorum) /\ wakers[w].split = wakers[w].req.split
    /\ wakers[w].exp <= now + Ttl
    /\ \A h \in wakers[w].quorum :
         \/ holders[h].split > wakers[w].split
         \/ holders[h].lease.id = w /\ holders[h].lease.exp >= wakers[w].exp
         \/ wakers[w].exp <= now

----------------------------------------------------------------------------
(* Types.                                                                     *)

LEMMA Numbers ==
  /\ Shares \in Nat \ {0} /\ Threshold \in 1 .. Shares /\ Ttl \in Nat
  /\ WakeTimes \subseteq Nat /\ MaxTime \in Nat /\ MaxEpoch \in Nat /\ MaxDigest \in Nat
  BY HibernateAssumption

LEMMA ShareType ==
  ASSUME NEW e \in Int, NEW k \in Nat, NEW d \in Nat, NEW w \in Nat
  PROVE  ShareFor(e, k, d, w) \in Records
  BY DEF ShareFor, Records, NoLease, NoShare

LEMMA AckType ==
  ASSUME NEW r \in Records
  PROVE  ack_from(r) \in Commitments
  BY DEF ack_from, Records, Commitments

LEMMA LeaseType ==
  ASSUME TypeOK, NEW w \in Wakers, NEW hs
  PROVE  issue_lease(hs, w) \in [Holders -> Records]
<1>1. now + Ttl \in Nat
  BY Numbers DEF TypeOK
<1>2. ASSUME NEW h \in Holders
      PROVE  [holders[h] EXCEPT !.lease = [id |-> w, exp |-> now + Ttl]] \in Records
  BY <1>1 DEF TypeOK, Records
<1> QED BY <1>2 DEF TypeOK, issue_lease

LEMMA PublishType ==
  ASSUME TypeOK, NEW e \in Requests, publish(e)
  PROVE  relay' \in Requests /\ wire' \subseteq Requests
  BY DEF TypeOK, publish, Arrived

LEMMA Constants ==
  /\ Never \in Nat /\ NoRequest \in Requests /\ Idle \in Attempts /\ NoShare \in Records
  /\ NoRequest.stamp = 0 /\ NoRequest.split = 0 /\ Holders \subseteq Nat
<1>1. NoRequest \in Requests
  BY DEF NoRequest, Requests
<1>2. Idle \in Attempts
  BY <1>1 DEF Idle, Attempts
<1>3. NoShare \in Records
  BY DEF NoShare, Records
<1> QED BY <1>1, <1>2, <1>3, Numbers DEF Never, NoRequest, Holders

LEMMA TypesStep == TypeOK /\ [Next]_vars => TypeOK'
<1> SUFFICES ASSUME TypeOK, [Next]_vars PROVE TypeOK'
  OBVIOUS
<1> USE Constants, Numbers DEF TypeOK
<1>abort. \A n \in Int : Aborted(n) => phase' = "awake" /\ epoch' \in Int /\ draft' \in Requests
                                     /\ acks' \in Seq(Commitments) /\ Len(acks') <= Shares
  BY DEF Aborted
<1>write. ASSUME NEW h \in Holders, NEW share \in Records
          PROVE  /\ receive_share(h, share) \in Records
                 /\ [holders EXCEPT ![h] = receive_share(h, share)] \in [Holders -> Records]
  BY DEF receive_share
<1>1. CASE Unready
  <2>1. disk' \in Nat /\ faults' \in Nat
    BY <1>1 DEF Unready, Fault
  <2> QED BY <2>1, <1>1, <1>abort DEF Unready
<1>2. CASE Quiesce
  <2>1. PICK d \in {disk, disk + 1} \cap (1 .. MaxDigest), w \in WakeTimes :
          /\ disk' = d
          /\ draft' = [wake |-> w, digest |-> d, split |-> splits + 1, epoch |-> epoch,
                       stamp |-> 2 * (splits + 1)]
    BY <1>2 DEF Quiesce
  <2>2. w \in Nat /\ d \in Nat /\ splits + 1 \in Nat /\ 2 * (splits + 1) \in Nat
    OBVIOUS
  <2>3. draft' \in Requests /\ disk' \in Nat
    BY <2>1, <2>2 DEF Requests
  <2> QED BY <2>3, <1>2 DEF Quiesce
<1>upcoming. Len(acks) < Shares => Upcoming(acks) \in Holders
  BY DEF Upcoming, Holders
<1>draft. DraftShare \in Records /\ draft.epoch \in Int /\ draft.stamp \in Nat /\ draft.split \in Nat
  BY ShareType DEF DraftShare, Requests
<1>frozen. FrozenShare \in Records
  <2>1. draft.epoch + 1 \in Int /\ draft.digest \in Nat
    BY DEF Requests
  <2> QED BY <2>1, ShareType DEF FrozenShare
<1>3. CASE Distribute
  <2> DEFINE h == Upcoming(acks)
  <2>1. h \in Holders /\ holders' = [holders EXCEPT ![h] = receive_share(h, DraftShare)]
    BY <1>3, <1>upcoming DEF Distribute
  <2>2. holders' \in [Holders -> Records] /\ ack_from(holders'[h]) \in Commitments
    <3>1. holders' \in [Holders -> Records]
      BY <2>1, <1>write, <1>draft
    <3>2. holders'[h] \in Records
      BY <2>1, <3>1
    <3> QED BY <3>1, <3>2, AckType
  <2>3. acks' = Append(acks, ack_from(holders'[h])) /\ Len(acks) < Shares
    BY <1>3 DEF Distribute
  <2>4. acks' \in Seq(Commitments) /\ Len(acks') <= Shares
    BY <2>2, <2>3
  <2> QED BY <2>2, <2>4, <1>3 DEF Distribute
<1>4. CASE DistributeFails
  <2> DEFINE h == Upcoming(acks)
  <2>1. h \in Holders /\ holders' \in {holders, [holders EXCEPT ![h] = receive_share(h, DraftShare)]}
    BY <1>4, <1>upcoming DEF DistributeFails, MayWrite
  <2>2. holders' \in [Holders -> Records]
    BY <2>1, <1>write, <1>draft
  <2> QED BY <2>2, <1>4, <1>abort, <1>draft DEF DistributeFails, Fault
<1>5. CASE LocalVerify
  <2>1. CASE phase' = "publish" /\ acks' = <<>> /\ UNCHANGED <<epoch, draft, faults>>
    BY <2>1, <1>5 DEF LocalVerify
  <2>2. CASE Aborted(draft.epoch + 1)
    BY <2>2, <1>5, <1>abort, <1>draft DEF LocalVerify, Fault
  <2> QED BY <2>1, <2>2, <1>5 DEF LocalVerify
<1>6. CASE Publish
  BY <1>6, PublishType DEF Publish
<1>7. CASE Confirm
  BY <1>7 DEF Confirm
<1>8. CASE Unconfirmed
  BY <1>8 DEF Unconfirmed
<1>9. CASE Freeze
  <2> DEFINE h == Upcoming(acks)
  <2>1. h \in Holders /\ holders' = [holders EXCEPT ![h] = receive_share(h, FrozenShare)]
    BY <1>9, <1>upcoming DEF Freeze
  <2>2. holders' \in [Holders -> Records] /\ ack_from(holders'[h]) \in Commitments
    <3>1. holders' \in [Holders -> Records]
      BY <2>1, <1>write, <1>frozen
    <3>2. holders'[h] \in Records
      BY <2>1, <3>1
    <3> QED BY <3>1, <3>2, AckType
  <2>3. CASE h = Shares
    <3>1. phase' = "tombstone" /\ loose' = FALSE /\ acks' = <<>>
      BY <2>3, <1>9 DEF Freeze
    <3>2. acks' \in Seq(Commitments) /\ Len(acks') <= Shares
      BY <3>1
    <3>3. UNCHANGED <<now, epoch, draft, splits, disk, lost, relay, wire, wakers, faults>>
      BY <1>9 DEF Freeze
    <3> QED BY <3>1, <3>2, <3>3, <2>2
  <2>4. CASE h # Shares
    <3>1. acks' = Append(acks, ack_from(holders'[h])) /\ Len(acks) < Shares
      BY <2>4, <1>9 DEF Freeze
    <3>2. acks' \in Seq(Commitments) /\ Len(acks') <= Shares
      BY <2>2, <3>1
    <3> QED BY <3>2, <2>2, <2>4, <1>9 DEF Freeze
  <2> QED BY <2>3, <2>4
<1>10. CASE FreezeFails
  <2> DEFINE h == Upcoming(acks)
  <2>1. h \in Holders /\ holders' \in {holders, [holders EXCEPT ![h] = receive_share(h, FrozenShare)]}
    BY <1>10, <1>upcoming DEF FreezeFails, MayWrite
  <2>2. holders' \in [Holders -> Records]
    BY <2>1, <1>write, <1>frozen
  <2> QED BY <2>2, <1>10 DEF FreezeFails, Fault
<1>tomb. TombstoneOf(draft) \in Requests
  <2>1. draft.epoch + 1 \in Int /\ draft.stamp + 1 \in Nat /\ draft.digest \in Nat /\ draft.split \in Nat
    BY DEF Requests
  <2> QED BY <2>1 DEF TombstoneOf, Requests
<1>11. CASE Tombstone
  <2>1. relay' \in Requests /\ wire' \subseteq Requests
    BY <1>11, <1>tomb, PublishType DEF Tombstone
  <2> QED BY <2>1, <1>11, <1>abort, <1>draft DEF Tombstone
<1>12. CASE Cancelled
  <2>1. relay' \in Requests /\ wire' \subseteq Requests /\ loose' \in BOOLEAN
    BY <1>12, <1>tomb, PublishType DEF Cancelled
  <2>2. \E n \in Int : Aborted(n)
    BY <1>12, <1>draft DEF Cancelled
  <2> QED BY <2>1, <2>2, <1>12, <1>abort DEF Cancelled, Fault
<1>13. CASE Tick
  BY <1>13 DEF Tick, sealing
<1>14. CASE Arrives
  BY <1>14 DEF Arrives, Arrived, sealing
<1>15. CASE HolderLost
  BY <1>15 DEF HolderLost, Fault
<1>16. ASSUME NEW w \in Wakers, Fetch(w) PROVE TypeOK'
  BY <1>16 DEF Fetch, sealing, Attempts
<1>17. ASSUME NEW w \in Wakers, Wake(w) PROVE TypeOK'
  <2>1. holders' \in [Holders -> Records]
    BY <1>17, LeaseType DEF Wake
  <2>2. wakers' \in [Wakers -> Attempts]
    <3> DEFINE q == gather_leases(w, wakers[w].req.digest)
    <3>1. q \in SUBSET Holders /\ now + Ttl \in Nat /\ wakers[w] \in Attempts
      BY DEF gather_leases, Asked
    <3>2. wakers[w].req.split \in Nat
      BY <3>1 DEF Attempts, Requests
    <3>3. [wakers[w] EXCEPT !.state = "live", !.exp = now + Ttl,
                            !.split = wakers[w].req.split, !.quorum = q] \in Attempts
      BY <3>1, <3>2 DEF Attempts
    <3>4. wakers' = [wakers EXCEPT ![w] = [wakers[w] EXCEPT !.state = "live", !.exp = now + Ttl,
                            !.split = wakers[w].req.split, !.quorum = q]]
      BY <1>17 DEF Wake
    <3> QED BY <3>3, <3>4
  <2> QED BY <2>1, <2>2, <1>17 DEF Wake, sealing
<1>over. \A w \in Wakers : Over(w) => wakers' \in [Wakers -> Attempts]
  <2>1. [Idle EXCEPT !.state = "over"] \in Attempts
    BY DEF Attempts
  <2> QED BY <2>1 DEF Over
<1>18. ASSUME NEW w \in Wakers, WakeFails(w) PROVE TypeOK'
  <2>1. holders' \in [Holders -> Records]
    BY <1>18, LeaseType DEF WakeFails
  <2> QED BY <2>1, <1>18, <1>over DEF WakeFails, sealing
<1>19. ASSUME NEW w \in Wakers, WakerDies(w) PROVE TypeOK'
  <2>1. holders' \in [Holders -> Records]
    BY <1>19, LeaseType DEF WakerDies
  <2>2. wakers' \in [Wakers -> Attempts] /\ faults' \in Nat
    BY <1>19, <1>over DEF WakerDies, Fault
  <2> QED BY <2>1, <2>2, <1>19 DEF WakerDies
<1>20. ASSUME NEW w \in Wakers, Renew(w) PROVE TypeOK'
  <2>1. holders' \in [Holders -> Records]
    BY <1>20, LeaseType DEF Renew
  <2>2. wakers' \in [Wakers -> Attempts]
    <3> DEFINE q == gather_leases(w, wakers[w].req.digest)
    <3>1. q \in SUBSET Holders /\ now + Ttl \in Nat /\ wakers[w] \in Attempts
      BY DEF gather_leases, Asked
    <3>2. [wakers[w] EXCEPT !.exp = now + Ttl, !.quorum = q] \in Attempts
      BY <3>1 DEF Attempts
    <3>3. \/ wakers' = wakers
          \/ wakers' = [wakers EXCEPT ![w] = [wakers[w] EXCEPT !.exp = now + Ttl, !.quorum = q]]
      BY <1>20 DEF Renew
    <3> QED BY <3>2, <3>3
  <2> QED BY <2>1, <2>2, <1>20 DEF Renew, sealing
<1>21. CASE UNCHANGED vars
  BY <1>21 DEF vars
<1> QED
  BY <1>1, <1>2, <1>3, <1>4, <1>5, <1>6, <1>7, <1>8, <1>9, <1>10, <1>11, <1>12, <1>13, <1>14,
     <1>15, <1>16, <1>17, <1>18, <1>19, <1>20, <1>21 DEF Next, Seal

LEMMA TypesInit == Init => TypeOK
<1> SUFFICES ASSUME Init PROVE TypeOK
  OBVIOUS
<1>1. holders \in [Holders -> Records] /\ wakers \in [Wakers -> Attempts]
  BY Constants DEF Init
<1>2. acks \in Seq(Commitments) /\ Len(acks) <= Shares
  BY Numbers DEF Init
<1>3. draft \in Requests /\ relay \in Requests /\ wire \subseteq Requests
  BY Constants DEF Init
<1>4. now \in Nat /\ epoch \in Int /\ splits \in Nat /\ disk \in Nat /\ faults \in Nat
  BY DEF Init
<1>5. phase = "awake" /\ loose = FALSE /\ lost = {}
  BY DEF Init
<1> QED BY <1>1, <1>2, <1>3, <1>4, <1>5 DEF TypeOK

\* Every variable of the ceremony and of the wakers has its type in every
\* reachable state.
THEOREM HibernateTypes == Spec => []TypeOK
<1>1. Init => TypeOK
  BY TypesInit
<1> QED BY <1>1, TypesStep, PTL DEF Spec

----------------------------------------------------------------------------
(* The course of the seal.                                                    *)

LEMMA Stamps ==
  TypeOK => /\ splits \in Nat /\ relay.stamp \in Nat /\ draft.stamp \in Nat /\ draft.split \in Nat
            /\ \A e \in wire : e.stamp \in Nat
  BY DEF TypeOK, Requests

LEMMA CourseStep == TypeOK /\ Course /\ [Next]_vars => Course'
<1> SUFFICES ASSUME TypeOK, Course, [Next]_vars PROVE Course'
  OBVIOUS
<1> USE Stamps, Numbers DEF Course, Planned, Revoking
<1>1. CASE Unready
  BY <1>1 DEF Unready, Aborted
<1>2. CASE Quiesce
  BY <1>2 DEF Quiesce
<1>3. CASE Distribute
  BY <1>3 DEF Distribute
<1>4. CASE DistributeFails
  BY <1>4 DEF DistributeFails, Aborted
<1>5. CASE LocalVerify
  BY <1>5 DEF LocalVerify, Aborted
<1>6. CASE Publish
  BY <1>6 DEF Publish, publish, Arrived
<1>7. CASE Confirm
  BY <1>7 DEF Confirm, Confirmed
<1>8. CASE Unconfirmed
  BY <1>8 DEF Unconfirmed
<1>9. CASE Freeze
  BY <1>9 DEF Freeze, Upcoming
<1>10. CASE FreezeFails
  BY <1>10 DEF FreezeFails
<1>tomb. ASSUME phase = "tombstone", publish(TombstoneOf(draft)), phase' = "awake", UNCHANGED splits
         PROVE  Course'
  <2>1. TombstoneOf(draft).stamp = draft.stamp + 1 /\ draft.stamp + 1 <= 2 * splits
    BY <1>tomb DEF TombstoneOf
  <2>2. /\ relay'.stamp <= 2 * splits
        /\ \A e \in wire' : e.stamp <= 2 * splits /\ e.stamp > relay'.stamp
    BY <2>1, <1>tomb DEF publish, Arrived
  <2> QED BY <2>2, <1>tomb
<1>11. CASE Tombstone
  BY <1>11, <1>tomb DEF Tombstone, Aborted
<1>12. CASE Cancelled
  <2>1. CASE phase = "publish"
    <3>1. draft.stamp = 2 * splits /\ relay.stamp < draft.stamp
      BY <2>1
    <3>2. publish(draft)
      BY <2>1, <1>12 DEF Cancelled
    <3>3. /\ relay'.stamp <= 2 * splits
          /\ \A e \in wire' : e.stamp <= 2 * splits /\ e.stamp > relay'.stamp
      BY <3>1, <3>2 DEF publish, Arrived
    <3> QED BY <3>3, <1>12 DEF Cancelled, Aborted
  <2>2. CASE phase = "confirm"
    BY <2>2, <1>12 DEF Cancelled, Aborted
  <2>3. CASE phase = "tombstone"
    BY <2>3, <1>12, <1>tomb DEF Cancelled, Aborted
  <2> QED BY <2>1, <2>2, <2>3, <1>12 DEF Cancelled
<1>13. CASE Arrives
  BY <1>13 DEF Arrives, Arrived, sealing
<1>14. CASE UNCHANGED <<sealing, relay, wire>>
  BY <1>14 DEF sealing
<1>15. CASE HolderLost
  BY <1>15 DEF HolderLost
<1>16. ASSUME NEW w \in Wakers, WakerDies(w) PROVE Course'
  BY <1>16 DEF WakerDies
<1>17. ASSUME NEW w \in Wakers, Fetch(w) \/ Wake(w) \/ WakeFails(w) \/ Renew(w)
       PROVE  UNCHANGED <<sealing, relay, wire>>
  BY <1>17 DEF Fetch, Wake, WakeFails, Renew
<1>18. CASE Tick
  BY <1>18, <1>14 DEF Tick
<1>19. CASE UNCHANGED vars
  BY <1>19, <1>14 DEF vars, sealing
<1> QED
  BY <1>1, <1>2, <1>3, <1>4, <1>5, <1>6, <1>7, <1>8, <1>9, <1>10, <1>11, <1>12, <1>13, <1>14,
     <1>15, <1>16, <1>17, <1>18, <1>19 DEF Next, Seal

----------------------------------------------------------------------------
(* What the holders hold.                                                     *)

\* A lease changes nothing else of a record.
SameShares == \A h \in Holders :
  /\ holders'[h].split = holders[h].split /\ holders'[h].epoch = holders[h].epoch
  /\ holders'[h].digest = holders[h].digest /\ holders'[h].wake = holders[h].wake

LEMMA LeaseKeeps ==
  ASSUME TypeOK, NEW w \in Wakers, NEW hs, holders' = issue_lease(hs, w)
  PROVE  SameShares
<1> SUFFICES ASSUME NEW h \in Holders
             PROVE  /\ holders'[h].split = holders[h].split /\ holders'[h].epoch = holders[h].epoch
                    /\ holders'[h].digest = holders[h].digest /\ holders'[h].wake = holders[h].wake
  BY DEF SameShares
<1> holders[h] \in Records
  BY DEF TypeOK
<1>1. CASE h \in hs
  <2>1. holders'[h] = [holders[h] EXCEPT !.lease = [id |-> w, exp |-> now + Ttl]]
    BY <1>1 DEF issue_lease
  <2> QED BY <2>1 DEF Records
<1>2. CASE h \notin hs
  BY <1>2 DEF issue_lease
<1> QED BY <1>1, <1>2

LEMMA HolderFields ==
  TypeOK => \A h \in Holders : /\ holders[h] \in Records /\ holders[h].split \in Nat
                               /\ holders[h].epoch \in Int
  BY DEF TypeOK, Records

\* Every step that is not the seal's leaves the shares as they are.
LEMMA OthersKeep ==
  ASSUME TypeOK, [Next]_vars, ~Seal
  PROVE  SameShares /\ UNCHANGED <<phase, epoch, draft, acks, splits, disk, loose>>
<1>1. CASE Tick \/ Arrives \/ HolderLost \/ UNCHANGED vars
  BY <1>1 DEF Tick, Arrives, HolderLost, vars, sealing, SameShares
<1>2. ASSUME NEW w \in Wakers, Fetch(w) \/ Wake(w) \/ WakeFails(w) \/ WakerDies(w) \/ Renew(w)
      PROVE  SameShares /\ UNCHANGED <<phase, epoch, draft, acks, splits, disk, loose>>
  <2>1. CASE Fetch(w)
    BY <2>1 DEF Fetch, sealing, SameShares
  <2>2. CASE Wake(w)
    BY <2>2, LeaseKeeps DEF Wake, sealing
  <2>3. CASE WakeFails(w)
    BY <2>3, LeaseKeeps DEF WakeFails, sealing
  <2>4. CASE WakerDies(w)
    <3>1. PICK n \in 1 .. Shares : holders' = issue_lease(Asked(w) \cap 1 .. n, w)
      BY <2>4 DEF WakerDies
    <3> QED BY <3>1, <2>4, LeaseKeeps DEF WakerDies
  <2>5. CASE Renew(w)
    BY <2>5, LeaseKeeps DEF Renew, sealing
  <2> QED BY <1>2, <2>1, <2>2, <2>3, <2>4, <2>5
<1> QED BY <1>1, <1>2 DEF Next

LEMMA UpcomingHolder ==
  TypeOK /\ Len(acks) < Shares => Upcoming(acks) \in Holders /\ Upcoming(acks) = Len(acks) + 1
  BY Numbers DEF TypeOK, Upcoming, Holders

LEMMA HandedStep == TypeOK /\ Course /\ Handed /\ [Next]_vars => Handed'
<1> SUFFICES ASSUME TypeOK, Course, Handed, [Next]_vars PROVE Handed'
  OBVIOUS
<1> USE Stamps, HolderFields, Numbers
<1>len. Len(acks) \in Nat /\ Holders \subseteq Nat /\ acks \in Seq(Commitments)
  BY Constants DEF TypeOK
<1>fun. holders \in [Holders -> Records]
  BY DEF TypeOK
<1>low. \A h \in Holders : h \in Nat /\ h > 0 /\ holders[h].split <= splits
  BY DEF Handed, Holders
<1>1. CASE ~Seal
  BY <1>1, OthersKeep DEF SameShares, Handed, Guards, Frozen, ack_from
<1>awake. ASSUME phase' = "awake", UNCHANGED <<holders, splits>> PROVE Handed'
  BY <1>awake DEF Handed
<1>2. CASE Unready
  BY <1>2, <1>awake DEF Unready, Aborted
<1>3. CASE Quiesce
  <2>1. draft'.split = splits + 1 /\ splits' = splits + 1 /\ acks' = <<>> /\ phase' = "distribute"
        /\ UNCHANGED holders
    BY <1>3 DEF Quiesce
  <2>2. Len(acks') = 0
    BY <2>1
  <2>3. \A h \in Holders : /\ holders'[h].split <= splits' /\ holders'[h].split < draft'.split
                           /\ ~(h <= Len(acks'))
    BY <2>1, <2>2, <1>low
  <2> QED BY <2>1, <2>3 DEF Handed
<1>4. CASE Distribute
  <2>0. PICK h \in Holders : h = Upcoming(acks)
    BY <1>4, UpcomingHolder DEF Distribute
  <2>1. /\ h = Len(acks) + 1
        /\ holders' = [holders EXCEPT ![h] = receive_share(h, DraftShare)]
        /\ acks' = Append(acks, ack_from(holders'[h]))
        /\ UNCHANGED <<phase, draft, splits>> /\ phase = "distribute"
    BY <1>4, <2>0, UpcomingHolder DEF Distribute
  <2>2. draft.split = splits
    BY <2>1 DEF Course, Planned
  <2>3. holders'[h].split <= splits /\ (holders'[h].split < draft.split \/ Guards(h)')
    <3>1. CASE DraftShare.epoch = holders[h].epoch
      <4>1. holders'[h] = holders[h]
        BY <3>1, <2>1, <1>fun DEF receive_share
      <4> QED BY <4>1, <2>1, <1>low, <1>len DEF Handed
    <3>2. CASE DraftShare.epoch # holders[h].epoch
      <4>1. holders'[h] = DraftShare
        BY <3>2, <2>1, <1>fun DEF receive_share
      <4> QED BY <4>1, <2>1, <2>2 DEF DraftShare, ShareFor, Guards
    <3> QED BY <3>1, <3>2
  <2>4. Len(acks') = Len(acks) + 1 /\ acks'[h] = ack_from(holders'[h])
        /\ \A i \in 1 .. Len(acks) : acks'[i] = acks[i]
    BY <2>1, <1>len
  <2>5. \A g \in Holders \ {h} : holders'[g] = holders[g]
    BY <2>1, <1>fun
  <2>6. \A g \in Holders : g <= Len(acks) => g \in 1 .. Len(acks) /\ g # h
    BY <1>len, <2>1 DEF Holders
  <2>7. ASSUME NEW g \in Holders, g # h
        PROVE  /\ holders'[g].split <= splits
               /\ g > Len(acks') => holders'[g].split < draft.split
               /\ g <= Len(acks') => /\ acks'[g] = ack_from(holders'[g])
                                     /\ holders'[g].split < draft.split \/ Guards(g)'
    <3>1. holders'[g] = holders[g] /\ (g <= Len(acks') => g <= Len(acks)) /\ (g > Len(acks') => g > Len(acks))
      BY <2>7, <2>5, <2>4, <2>1, <1>len
    <3> QED BY <3>1, <2>1, <2>4, <2>6 DEF Handed, Guards, ack_from
  <2>8. ~(h > Len(acks'))
    BY <2>1, <2>4, <1>len
  <2>9. ASSUME NEW g \in Holders
        PROVE  /\ holders'[g].split <= splits
               /\ g > Len(acks') => holders'[g].split < draft.split
               /\ g <= Len(acks') => /\ acks'[g] = ack_from(holders'[g])
                                     /\ holders'[g].split < draft.split \/ Guards(g)'
    BY <2>3, <2>4, <2>7, <2>8
  <2> QED BY <2>1, <2>9 DEF Handed, ack_from
<1>5. CASE DistributeFails
  <2>1. phase' = "awake" /\ phase = "distribute" /\ UNCHANGED splits
    BY <1>5 DEF DistributeFails, Aborted
  <2>2. draft.split = splits
    BY <2>1 DEF Course, Planned
  <2> DEFINE h == Upcoming(acks)
  <2>3. h \in Holders /\ holders' \in {holders, [holders EXCEPT ![h] = receive_share(h, DraftShare)]}
    BY <1>5, UpcomingHolder DEF DistributeFails, MayWrite
  <2>4. receive_share(h, DraftShare).split <= splits
    BY <2>2, <2>3, <1>low DEF receive_share, DraftShare, ShareFor
  <2>5. \A g \in Holders : holders'[g].split <= splits
    BY <2>3, <2>4, <1>low, <1>fun
  <2> QED BY <2>1, <2>5 DEF Handed
<1>6. CASE LocalVerify
  <2>1. CASE phase' = "publish"
    <3>1. acks_match /\ Len(acks) = Shares /\ phase = "distribute" /\ UNCHANGED <<draft, splits, holders>>
      BY <2>1, <1>6 DEF LocalVerify, Aborted
    <3>2. ASSUME NEW h \in Holders PROVE Guards(h)
      <4>1. h <= Len(acks) /\ acks[h].split = draft.split
        BY <3>1 DEF acks_match, Holders
      <4>2. holders[h].split = draft.split
        <5>1. acks[h] = ack_from(holders[h])
          BY <4>1, <3>1 DEF Handed
        <5> QED BY <5>1, <4>1 DEF ack_from
      <4> QED BY <4>1, <4>2, <3>1 DEF Handed
    <3> QED BY <3>1, <3>2, <2>1 DEF Handed, Guards
  <2>2. CASE phase' = "awake"
    BY <2>2, <1>6, <1>awake DEF LocalVerify
  <2> QED BY <2>1, <2>2, <1>6 DEF LocalVerify, Aborted
<1>7. CASE Publish \/ Confirm
  BY <1>7 DEF Publish, Confirm, Handed, Guards
<1>8. CASE Unconfirmed
  <2>1. acks = <<>> /\ phase = "confirm" /\ phase' = "revoke" /\ splits' = splits + 1
        /\ UNCHANGED <<draft, holders, acks>>
    BY <1>8 DEF Unconfirmed, Course
  <2>2. \A h \in Holders : h > Len(acks) /\ ~(h <= Len(acks))
    BY <2>1, <1>low
  <2>3. \A h \in Holders : Guards(h) /\ holders[h].split <= splits'
    BY <2>1, <1>low DEF Handed
  <2> QED BY <2>1, <2>2, <2>3 DEF Handed, Guards
<1>spread. phase = "revoke" =>
             \A g \in Holders : holders[g].split <= splits /\ holders[g].split >= draft.split
  <2> SUFFICES ASSUME phase = "revoke", NEW g \in Holders PROVE holders[g].split >= draft.split
    BY <1>low
  <2>1. draft.split + 1 = splits
    BY DEF Course, Revoking
  <2>2. Guards(g) \/ Frozen(g)
    BY <1>low, <1>len DEF Handed
  <2> QED BY <2>1, <2>2 DEF Guards, Frozen
<1> DEFINE f == Upcoming(acks)
<1>freeze. ASSUME phase = "revoke", Len(acks) < Shares
           PROVE  /\ f \in Holders /\ f = Len(acks) + 1 /\ Guards(f)
                  /\ receive_share(f, FrozenShare) = FrozenShare
                  /\ FrozenShare.split = splits /\ FrozenShare.epoch = draft.epoch + 1
                  /\ draft.split + 1 = splits
  <2>1. f \in Holders /\ f = Len(acks) + 1 /\ Guards(f)
    BY <1>freeze, <1>len, UpcomingHolder DEF Handed
  <2>2. FrozenShare.epoch = draft.epoch + 1 /\ FrozenShare.split = splits
    BY DEF FrozenShare, ShareFor
  <2>3. FrozenShare.epoch # holders[f].epoch
    BY <2>1, <2>2 DEF Guards
  <2> QED BY <2>1, <2>2, <2>3, <1>freeze DEF receive_share, Course, Revoking
<1>9. CASE Freeze
  <2>1. /\ holders' = [holders EXCEPT ![f] = FrozenShare] /\ UNCHANGED <<draft, splits>>
        /\ phase = "revoke"
    BY <1>9, <1>freeze DEF Freeze
  <2>2. f \in Holders /\ f = Len(acks) + 1 /\ holders'[f] = FrozenShare
        /\ \A g \in Holders \ {f} : holders'[g] = holders[g]
    BY <2>1, <1>9, <1>freeze, <1>fun DEF Freeze
  <2>split. FrozenShare.split = splits /\ FrozenShare.epoch = draft.epoch + 1 /\ draft.split + 1 = splits
    BY <1>9, <1>freeze DEF Freeze
  <2>3. holders'[f].split = splits' /\ holders'[f].epoch = draft'.epoch + 1
    BY <2>1, <2>2, <2>split
  <2>4. \A g \in Holders : holders'[g].split <= splits /\ holders'[g].split >= draft.split
    <3>1. \A g \in Holders : holders[g].split <= splits /\ holders[g].split >= draft.split
      BY <2>1, <1>spread
    <3> QED BY <3>1, <2>2, <2>split
  <2>5. CASE f = Shares
    BY <2>1, <2>4, <2>5, <1>9 DEF Freeze, Handed
  <2>6. CASE f # Shares
    <3>1. phase' = "revoke" /\ Len(acks') = Len(acks) + 1
      BY <2>1, <2>6, <1>9, <1>len DEF Freeze
    <3>2. ASSUME NEW g \in Holders
          PROVE  (g > Len(acks') => Guards(g)') /\ (g <= Len(acks') => Frozen(g)')
      <4>1. CASE g = f
        <5>1. ~(g > Len(acks'))
          BY <4>1, <3>1, <2>2, <1>len
        <5> QED BY <5>1, <4>1, <2>3 DEF Frozen
      <4>2. CASE g # f
        <5>1. g \in Nat /\ holders'[g] = holders[g]
          BY <4>2, <2>2, <1>len
        <5>2. (g > Len(acks') => g > Len(acks)) /\ (g <= Len(acks') => g <= Len(acks))
          BY <5>1, <4>2, <3>1, <2>2, <1>len
        <5> QED BY <5>1, <5>2, <2>1 DEF Handed, Guards, Frozen
      <4> QED BY <4>1, <4>2
    <3> QED BY <3>1, <3>2, <2>1, <2>4 DEF Handed
  <2> QED BY <2>5, <2>6
<1>10. CASE FreezeFails
  <2>1. holders' \in {holders, [holders EXCEPT ![f] = FrozenShare]} /\ phase = "revoke"
        /\ phase' = "tombstone" /\ UNCHANGED <<draft, splits>>
    BY <1>10, <1>freeze DEF FreezeFails, MayWrite
  <2>2. \A g \in Holders : holders[g].split <= splits /\ holders[g].split >= draft.split
    BY <2>1, <1>spread
  <2>3. \A g \in Holders : holders'[g].split <= splits /\ holders'[g].split >= draft.split
    <3>1. f \in Holders /\ FrozenShare.split = splits /\ draft.split + 1 = splits
      BY <1>10, <1>freeze DEF FreezeFails
    <3> QED BY <3>1, <2>1, <2>2, <1>fun
  <2> QED BY <2>1, <2>3 DEF Handed
<1>11. CASE Tombstone
  BY <1>11, <1>awake DEF Tombstone, Aborted
<1>12. CASE Cancelled
  BY <1>12, <1>awake DEF Cancelled, Aborted
<1> QED
  BY <1>1, <1>2, <1>3, <1>4, <1>5, <1>6, <1>7, <1>8, <1>9, <1>10, <1>11, <1>12 DEF Seal

----------------------------------------------------------------------------
(* What a waker can be told.                                                  *)

\* The seal leaves a record alone or puts a later split in its place.
LEMMA SplitsRise ==
  ASSUME TypeOK, Course, Handed, Seal, NEW h \in Holders
  PROVE  holders'[h] = holders[h] \/ holders'[h].split > holders[h].split
<1> USE HolderFields, Stamps, Numbers
<1>fun. holders \in [Holders -> Records]
  BY DEF TypeOK
<1>1. CASE UNCHANGED holders
  BY <1>1
<1>2. ASSUME NEW share, holders' = [holders EXCEPT ![Upcoming(acks)] = receive_share(Upcoming(acks), share)],
             h = Upcoming(acks) => share.split > holders[h].split
      PROVE  holders'[h] = holders[h] \/ holders'[h].split > holders[h].split
  BY <1>2, <1>fun DEF receive_share
<1>3. CASE Distribute \/ DistributeFails
  <2>1. phase = "distribute" /\ Len(acks) < Shares
    BY <1>3 DEF Distribute, DistributeFails
  <2>2. h = Upcoming(acks) => DraftShare.split > holders[h].split
    BY <2>1, UpcomingHolder DEF Handed, DraftShare, ShareFor, TypeOK
  <2> QED BY <1>3, <2>2, <1>1, <1>2 DEF Distribute, DistributeFails, MayWrite
<1>4. CASE Freeze \/ FreezeFails
  <2>1. phase = "revoke" /\ Len(acks) < Shares
    BY <1>4 DEF Freeze, FreezeFails
  <2>2. h = Upcoming(acks) => FrozenShare.split > holders[h].split
    BY <2>1, UpcomingHolder DEF Handed, Guards, Course, Revoking, FrozenShare, ShareFor, TypeOK
  <2> QED BY <1>4, <2>2, <1>1, <1>2 DEF Freeze, FreezeFails, MayWrite
<1> QED
  BY <1>1, <1>3, <1>4 DEF Seal, Unready, Quiesce, LocalVerify, Publish, Confirm, Unconfirmed,
     Tombstone, Cancelled

LEMMA SplitsGrow ==
  ASSUME TypeOK, Course, Handed, [Next]_vars, NEW h \in Holders
  PROVE  holders'[h].split >= holders[h].split
<1>1. CASE ~Seal
  BY <1>1, OthersKeep, HolderFields DEF SameShares
<1>2. CASE Seal
  <2>1. holders'[h] = holders[h] \/ holders'[h].split > holders[h].split
    BY <1>2, SplitsRise
  <2>2. holders[h].split \in Nat /\ holders'[h].split \in Nat
    <3>1. TypeOK'
      BY TypesStep
    <3> QED BY <3>1 DEF TypeOK, Records
  <2> QED BY <2>1, <2>2
<1> QED BY <1>1, <1>2

\* Nothing is published but by these steps.
Publishing == Publish \/ Tombstone \/ Cancelled

LEMMA OutStays ==
  ASSUME TypeOK, [Next]_vars, ~Publishing
  PROVE  OutThere' \subseteq OutThere \cup {NoRequest}
<1>1. CASE UNCHANGED <<relay, wire, wakers>>
  BY <1>1 DEF OutThere
<1>2. CASE Arrives
  BY <1>2 DEF Arrives, Arrived, OutThere
<1>wakers. wakers \in [Wakers -> Attempts]
  BY DEF TypeOK
<1>3. ASSUME NEW w \in Wakers, UNCHANGED <<relay, wire>>,
             \A v \in Wakers : wakers'[v].req \in {wakers[v].req, relay, NoRequest}
      PROVE  OutThere' \subseteq OutThere \cup {NoRequest}
  BY <1>3 DEF OutThere
<1>4. ASSUME NEW w \in Wakers, Fetch(w) \/ Wake(w) \/ WakeFails(w) \/ WakerDies(w) \/ Renew(w)
      PROVE  OutThere' \subseteq OutThere \cup {NoRequest}
  <2>1. UNCHANGED <<relay, wire>>
    BY <1>4 DEF Fetch, Wake, WakeFails, WakerDies, Renew
  <2>2. CASE Fetch(w)
    <3>1. \A v \in Wakers : wakers'[v].req \in {wakers[v].req, relay, NoRequest}
      BY <2>2, <1>wakers DEF Fetch, Attempts
    <3> QED BY <3>1, <2>1, <1>3
  <2>3. CASE Wake(w) \/ Renew(w)
    <3>1. \A v \in Wakers : wakers'[v].req \in {wakers[v].req, relay, NoRequest}
      BY <2>3, <1>wakers DEF Wake, Renew, Attempts
    <3> QED BY <3>1, <2>1, <1>3
  <2>4. CASE WakeFails(w) \/ WakerDies(w)
    <3>1. \A v \in Wakers : wakers'[v].req \in {wakers[v].req, relay, NoRequest}
      BY <2>4, <1>wakers DEF WakeFails, WakerDies, Over, Idle
    <3> QED BY <3>1, <2>1, <1>3
  <2> QED BY <1>4, <2>2, <2>3, <2>4
<1> QED
  BY <1>1, <1>2, <1>4 DEF Next, Seal, Publishing, Unready, Quiesce, Distribute, DistributeFails,
     LocalVerify, Confirm, Unconfirmed, Freeze, FreezeFails, Tick, HolderLost, vars

LEMMA OutTypes ==
  TypeOK => \A r \in OutThere : r \in Requests /\ r.split \in Nat
<1> SUFFICES ASSUME TypeOK, NEW r \in OutThere PROVE r \in Requests
  BY DEF Requests
<1>1. \A w \in Wakers : wakers[w].req \in Requests
  BY DEF TypeOK, Attempts
<1> QED BY <1>1 DEF TypeOK, OutThere

\* What a waker fetched is a request.
LEMMA AskedReal ==
  ASSUME TypeOK, [Next]_vars,
         \A w \in Wakers : wakers[w].state \in {"fetched", "live"} => wakers[w].req # NoRequest
  PROVE  \A w \in Wakers : wakers'[w].state \in {"fetched", "live"} => wakers'[w].req # NoRequest
<1> USE DEF TypeOK
<1>1. ASSUME NEW w \in Wakers, Fetch(w) \/ Wake(w) \/ WakeFails(w) \/ WakerDies(w) \/ Renew(w),
             NEW v \in Wakers, wakers'[v].state \in {"fetched", "live"}
      PROVE  wakers'[v].req # NoRequest
  <2>1. CASE Fetch(w)
    BY <2>1, <1>1 DEF Fetch, Attempts
  <2>2. CASE Wake(w)
    BY <2>2, <1>1 DEF Wake, Attempts
  <2>3. CASE WakeFails(w) \/ WakerDies(w)
    BY <2>3, <1>1 DEF WakeFails, WakerDies, Over, Idle
  <2>4. CASE Renew(w)
    BY <2>4, <1>1 DEF Renew, is_live, Attempts
  <2> QED BY <1>1, <2>1, <2>2, <2>3, <2>4
<1>2. CASE UNCHANGED wakers
  BY <1>2
<1> QED
  BY <1>1, <1>2 DEF Next, Seal, Unready, Quiesce, Distribute, DistributeFails, LocalVerify, Publish,
     Confirm, Unconfirmed, Freeze, FreezeFails, Tombstone, Cancelled, Tick, Arrives, HolderLost, vars

LEMMA ReachedStep == TypeOK /\ Course /\ Handed /\ Reached /\ [Next]_vars => Reached'
<1> SUFFICES ASSUME TypeOK, Course, Handed, Reached, [Next]_vars PROVE Reached'
  OBVIOUS
<1> USE Stamps, Numbers, HolderFields, OutTypes
<1>types. TypeOK' /\ Course' /\ Handed'
  BY TypesStep, CourseStep, HandedStep
<1>grow. \A h \in Holders : /\ holders'[h].split >= holders[h].split
                            /\ holders'[h].split \in Nat /\ holders[h].split \in Nat
  BY SplitsGrow, <1>types DEF TypeOK, Records
<1>none. NoRequest.split = 0
  BY Constants
<1>asked. \A w \in Wakers : wakers'[w].state \in {"fetched", "live"} => wakers'[w].req # NoRequest
  BY AskedReal DEF Reached
<1>1. CASE ~Publishing
  <2>out. ASSUME NEW r \in OutThere' PROVE r \in OutThere \/ r = NoRequest
    BY <1>1, OutStays
  <2>splits. splits' \in Nat /\ splits' >= splits
    <3>1. CASE ~Seal
      BY <3>1, OthersKeep
    <3>2. CASE Seal
      <4>1. splits' \in {splits, splits + 1}
        BY <1>1, <3>2 DEF Seal, Publishing, Unready, Quiesce, Distribute, DistributeFails,
           LocalVerify, Confirm, Unconfirmed, Freeze, FreezeFails
      <4> QED BY <4>1
    <3> QED BY <3>1, <3>2
  <2>1. \A r \in OutThere' : r = NoRequest \/ r.split \in 1 .. splits'
    BY <2>out, <2>splits DEF Reached
  <2>2. \A r \in OutThere', h \in Holders : holders'[h].split >= r.split
    BY <2>out, <1>grow, <1>none DEF Reached
  <2>3. CASE Freeze
    <3>1. phase = "revoke" /\ phase' \in {"revoke", "tombstone"} /\ draft' = draft
          /\ \A r \in OutThere' : r.split <= draft.split
      BY <2>3, <2>out, <1>none DEF Freeze, Reached, Revoking
    <3>2. ASSUME phase' = "tombstone", NEW h \in Holders PROVE holders'[h].split > draft.split
      <4>1. draft.split + 1 = splits /\ Upcoming(acks) = Shares /\ Len(acks) < Shares
            /\ Upcoming(acks) = Len(acks) + 1 /\ Len(acks) \in Nat
        BY <3>1, <3>2, <2>3, UpcomingHolder DEF Freeze, Course, Revoking, TypeOK
      <4>2. CASE h = Upcoming(acks)
        <5>1. FrozenShare.epoch = draft.epoch + 1 /\ FrozenShare.split = splits
          BY DEF FrozenShare, ShareFor
        <5>2. Guards(h) /\ draft.epoch \in Int
          BY <4>1, <4>2, <3>1 DEF Handed, TypeOK, Requests
        <5>3. holders'[h] = FrozenShare
          BY <5>1, <5>2, <4>2, <2>3 DEF Freeze, receive_share, Guards, TypeOK
        <5> QED BY <5>1, <5>3, <4>1
      <4>3. CASE h # Upcoming(acks)
        <5>1. h <= Len(acks)
          BY <4>1, <4>3 DEF Holders
        <5>2. Frozen(h)
          BY <5>1, <3>1 DEF Handed
        <5> QED BY <5>2, <4>1, <1>grow DEF Frozen
      <4> QED BY <4>2, <4>3
    <3>3. Quiet' => phase' = "tombstone"
      BY <3>1 DEF Quiet
    <3>4. Quiet' => \A r \in OutThere', h \in Holders : holders'[h].split > r.split
      <4> SUFFICES ASSUME Quiet', NEW r \in OutThere', NEW h \in Holders
                   PROVE  holders'[h].split > r.split
        OBVIOUS
      <4>1. r.split \in Nat /\ r.split <= draft.split
        BY <3>1, <2>out, <1>none
      <4> QED BY <4>1, <3>2, <3>3, <1>grow
    <3> QED BY <2>1, <2>2, <3>1, <3>2, <3>3, <3>4, <1>asked DEF Reached, Revoking
  <2>4. CASE ~Freeze
    <3>quiet. Quiet' => Quiet /\ (phase' = "tombstone" => phase = "tombstone")
      BY <1>1, <2>4, OthersKeep DEF Quiet, Seal, Publishing, Aborted, Unready, Quiesce, Distribute,
         DistributeFails, LocalVerify, Confirm, Unconfirmed, FreezeFails
    <3>1. Quiet' => \A r \in OutThere', h \in Holders : r # NoRequest => holders'[h].split > r.split
      BY <3>quiet, <2>out, <1>grow DEF Reached
    <3>2. Quiet' /\ phase' = "tombstone" => \A h \in Holders : holders'[h].split > draft'.split
      <4>1. Quiet' /\ phase' = "tombstone" => draft' = draft
        BY <3>quiet, <1>1, <2>4, OthersKeep DEF Quiet, Seal, Publishing, Aborted, Unready, Quiesce,
           Distribute, DistributeFails, LocalVerify, Confirm, Unconfirmed, FreezeFails
      <4> QED BY <4>1, <3>quiet, <1>grow DEF Reached
    <3>3. Revoking' => \A r \in OutThere' : r.split <= draft'.split
      <4>1. CASE Unconfirmed
        <5>1. draft' = draft /\ draft.split = splits
          BY <4>1 DEF Unconfirmed, Course, Planned
        <5> QED BY <5>1, <2>out, <1>none DEF Reached
      <4>2. CASE ~Unconfirmed
        <5>1. Revoking' => Revoking /\ draft' = draft
          BY <4>2, <1>1, <2>4, OthersKeep DEF Revoking, Seal, Publishing, Aborted, Unready, Quiesce,
             Distribute, DistributeFails, LocalVerify, Confirm, FreezeFails
        <5> QED BY <5>1, <2>out, <1>none DEF Reached
      <4> QED BY <4>1, <4>2
    <3>4. phase' \in {"distribute", "publish"} => \A r \in OutThere' : r.split < draft'.split
      <4>1. CASE Quiesce
        <5>1. draft'.split = splits + 1
          BY <4>1 DEF Quiesce
        <5> QED BY <5>1, <2>out, <1>none DEF Reached
      <4>2. CASE ~Quiesce
        <5>1. phase' \in {"distribute", "publish"} =>
                phase \in {"distribute", "publish"} /\ draft' = draft
          BY <4>2, <1>1, <2>4, OthersKeep DEF Seal, Publishing, Aborted, Unready,
             Distribute, DistributeFails, LocalVerify, Confirm, Unconfirmed, FreezeFails
        <5>2. phase \in {"distribute", "publish"} => draft.split >= 1
          BY DEF Course, Planned
        <5> QED BY <5>1, <5>2, <2>out, <1>none DEF Reached
      <4> QED BY <4>1, <4>2
    <3> QED BY <2>1, <2>2, <3>1, <3>2, <3>3, <3>4, <1>asked DEF Reached
  <2> QED BY <2>3, <2>4
<1>2. CASE Publishing
  <2>1. UNCHANGED <<splits, holders, wakers>> /\ phase' \in {"awake", "confirm"}
    BY <1>2 DEF Publishing, Publish, Tombstone, Cancelled, Aborted
  <2>2. ASSUME NEW r \in OutThere'
        PROVE  \/ r \in OutThere
               \/ phase = "publish" /\ r = draft
               \/ phase = "tombstone" /\ r = TombstoneOf(draft)
    BY <1>2, <2>1, <2>2 DEF Publishing, Publish, Tombstone, Cancelled, publish, Arrived, OutThere
  <2>3. phase \in {"publish", "tombstone"} =>
          draft.split \in 1 .. splits /\ \A h \in Holders : holders[h].split >= draft.split
    BY DEF Course, Planned, Revoking, Handed, Guards
  <2>4. TombstoneOf(draft).split = draft.split
    BY DEF TombstoneOf
  <2>5. \A r \in OutThere' : r = NoRequest \/ r.split \in 1 .. splits'
    BY <2>1, <2>2, <2>3, <2>4 DEF Reached
  <2>6. \A r \in OutThere', h \in Holders : holders'[h].split >= r.split
    BY <2>1, <2>2, <2>3, <2>4 DEF Reached
  <2>7. Quiet' => Quiet /\ phase = "tombstone"
    BY <1>2 DEF Quiet, Publishing, Publish, Tombstone, Cancelled
  <2>8. Quiet' => \A r \in OutThere', h \in Holders : r # NoRequest => holders'[h].split > r.split
    BY <2>1, <2>2, <2>4, <2>7 DEF Reached
  <2> QED BY <2>1, <2>5, <2>6, <2>8, <1>asked DEF Reached, Revoking
<1> QED BY <1>1, <1>2

----------------------------------------------------------------------------
(* The lease fence.                                                           *)

LEMMA Times ==
  TypeOK => /\ now \in Nat /\ Ttl \in Nat
            /\ \A w \in Wakers : wakers[w].exp \in Nat /\ wakers[w].split \in Nat
                                 /\ wakers[w].quorum \subseteq Holders
            /\ \A h \in Holders : holders[h].lease.exp \in Nat /\ holders[h].split \in Nat
<1> SUFFICES ASSUME TypeOK
             PROVE  /\ now \in Nat /\ Ttl \in Nat
                    /\ \A w \in Wakers : wakers[w].exp \in Nat /\ wakers[w].split \in Nat
                                         /\ wakers[w].quorum \subseteq Holders
                    /\ \A h \in Holders : holders[h].lease.exp \in Nat /\ holders[h].split \in Nat
  OBVIOUS
<1>1. \A w \in Wakers : wakers[w] \in Attempts
  BY DEF TypeOK
<1>2. \A h \in Holders : holders[h] \in Records
  BY DEF TypeOK
<1> QED BY <1>1, <1>2, Numbers DEF TypeOK, Attempts, Records

\* One holder's part of the fence: it stays behind the runtime's lease until a
\* later split replaces it or the lease runs out.
Behind(h, w) ==
  \/ holders[h].split > wakers[w].split
  \/ holders[h].lease.id = w /\ holders[h].lease.exp >= wakers[w].exp
  \/ wakers[w].exp <= now

LEMMA LeaseTaken ==
  ASSUME TypeOK, NEW v \in Wakers, NEW hs, hs \subseteq Asked(v), holders' = issue_lease(hs, v),
         NEW h \in Holders
  PROVE  IF h \in hs
         THEN /\ holders'[h].lease = [id |-> v, exp |-> now + Ttl] /\ Free(holders[h].lease, v)
              /\ holders'[h].split = holders[h].split
         ELSE holders'[h] = holders[h]
<1> holders[h] \in Records
  BY DEF TypeOK
<1>1. CASE h \in hs
  <2>1. holders'[h] = [holders[h] EXCEPT !.lease = [id |-> v, exp |-> now + Ttl]]
    BY <1>1 DEF issue_lease
  <2> QED BY <2>1, <1>1 DEF Records, Asked, Leases
<1>2. CASE h \notin hs
  BY <1>2 DEF issue_lease
<1> QED BY <1>1, <1>2

\* A grant to another waker leaves every live runtime fenced.
LEMMA GrantKeepsFence ==
  ASSUME TypeOK, NEW v \in Wakers, NEW hs, hs \subseteq Asked(v), holders' = issue_lease(hs, v),
         NEW w \in Wakers, wakers'[w] = wakers[w], now' = now, NEW h \in Holders, Behind(h, w),
         v = w => wakers[w].exp <= now + Ttl
  PROVE  Behind(h, w)'
<1> USE Times DEF Behind
<1>taken. IF h \in hs
          THEN /\ holders'[h].lease = [id |-> v, exp |-> now + Ttl] /\ Free(holders[h].lease, v)
               /\ holders'[h].split = holders[h].split
          ELSE holders'[h] = holders[h]
  BY LeaseTaken
<1>1. CASE h \notin hs
  BY <1>1, <1>taken
<1>2. CASE h \in hs
  <2>1. holders'[h].lease.id = v /\ holders'[h].lease.exp = now + Ttl
        /\ holders'[h].split = holders[h].split /\ Free(holders[h].lease, v)
    BY <1>2, <1>taken
  <2>2. CASE v = w
    BY <2>1, <2>2
  <2>3. CASE v # w
    BY <2>1, <2>3 DEF Free
  <2> QED BY <2>2, <2>3
<1> QED BY <1>1, <1>2

\* The first Threshold of a set can only be chosen from enough of them.
LEMMA EnoughShares ==
  ASSUME NEW hs \in SUBSET Holders, NEW q \in First(hs)
  PROVE  Enough(hs) /\ Enough(q)
<1>1. IsFiniteSet(Holders) /\ IsFiniteSet(hs) /\ IsFiniteSet(q) /\ q \subseteq hs
  <2>1. Shares \in Int /\ 1 \in Int
    BY Numbers
  <2>2. IsFiniteSet(Holders)
    BY <2>1, FS_Interval DEF Holders
  <2>3. q \subseteq hs
    BY DEF First
  <2>4. IsFiniteSet(hs)
    BY <2>2, FS_Subset
  <2> QED BY <2>2, <2>3, <2>4, FS_Subset
<1>2. Cardinality(q) = Threshold /\ Cardinality(q) <= Cardinality(hs)
  BY <1>1, FS_Subset DEF First
<1>3. Cardinality(q) \in Nat /\ Cardinality(hs) \in Nat
  BY <1>1, FS_CardinalityType
<1> QED BY <1>2, <1>3, Numbers DEF Enough

LEMMA FencedStep == TypeOK /\ Course /\ Handed /\ Reached /\ Fenced /\ [Next]_vars => Fenced'
<1> SUFFICES ASSUME TypeOK, Course, Handed, Reached, Fenced, [Next]_vars PROVE Fenced'
  OBVIOUS
<1>types. TypeOK'
  BY TypesStep
<1> USE Times
<1>req. \A w \in Wakers : wakers[w].req.split \in Nat /\ wakers[w] \in Attempts
  BY DEF TypeOK, Attempts, Requests
<1>wakers. wakers \in [Wakers -> Attempts]
  BY DEF TypeOK
<1> DEFINE Kept(w) == /\ Enough(wakers'[w].quorum) /\ wakers'[w].split = wakers'[w].req.split
                      /\ wakers'[w].exp <= now' + Ttl
                      /\ \A h \in wakers'[w].quorum :
                           \/ holders'[h].split > wakers'[w].split
                           \/ holders'[h].lease.id = w /\ holders'[h].lease.exp >= wakers'[w].exp
                           \/ wakers'[w].exp <= now'
<1>goal. SUFFICES ASSUME NEW w \in Wakers, wakers'[w].state = "live" PROVE Kept(w)
  BY DEF Fenced
<1>live. wakers[w].state = "live" =>
           /\ Enough(wakers[w].quorum) /\ wakers[w].split = wakers[w].req.split
           /\ wakers[w].exp <= now + Ttl /\ \A h \in wakers[w].quorum : Behind(h, w)
  BY DEF Fenced, Behind
<1>grant. ASSUME NEW v \in Wakers, NEW hs, hs \subseteq Asked(v), holders' = issue_lease(hs, v),
                 wakers'[w] = wakers[w], now' = now
          PROVE  Kept(w)
  <2>1. ASSUME NEW h \in wakers[w].quorum PROVE Behind(h, w)'
    BY <1>grant, <1>goal, <1>live, GrantKeepsFence
  <2> QED BY <2>1, <1>grant, <1>goal, <1>live DEF Behind
<1>1. CASE Seal
  <2>1. UNCHANGED <<wakers, now>>
    BY <1>1 DEF Seal, Unready, Quiesce, Distribute, DistributeFails, LocalVerify, Publish, Confirm,
       Unconfirmed, Freeze, FreezeFails, Tombstone, Cancelled
  <2>2. ASSUME NEW h \in wakers[w].quorum PROVE Behind(h, w)'
    <3>1. h \in Holders /\ Behind(h, w)
      BY <2>1, <1>goal, <1>live
    <3>2. holders'[h].split >= holders[h].split /\ holders'[h].split \in Nat
      BY <3>1, SplitsGrow, <1>types, HolderFields DEF TypeOK, Records
    <3>3. CASE holders'[h] = holders[h]
      BY <3>1, <3>3, <2>1 DEF Behind
    <3>4. CASE holders'[h].split > holders[h].split
      <4>1. holders[h].split >= wakers[w].split
        BY <3>1, <2>1, <1>goal, <1>live DEF Reached, OutThere
      <4> QED BY <4>1, <3>2, <3>4, <2>1 DEF Behind
    <3>5. holders'[h] = holders[h] \/ holders'[h].split > holders[h].split
      BY <3>1, <1>1, SplitsRise
    <3> QED BY <3>3, <3>4, <3>5
  <2> QED BY <2>1, <2>2, <1>goal, <1>live DEF Behind
<1>2. CASE Tick \/ Arrives \/ HolderLost \/ UNCHANGED vars
  <2>1. UNCHANGED <<wakers, holders>> /\ now' \in {now, now + 1}
    BY <1>2 DEF Tick, Arrives, HolderLost, vars
  <2> QED BY <2>1, <1>goal, <1>live DEF Behind
<1>3. ASSUME NEW v \in Wakers, Fetch(v) PROVE Kept(w)
  <2>1. wakers'[w] = wakers[w] /\ UNCHANGED <<now, holders>>
    BY <1>3, <1>goal, <1>wakers DEF Fetch, Attempts
  <2> QED BY <2>1, <1>goal, <1>live DEF Behind
<1>4. ASSUME NEW v \in Wakers, Wake(v) PROVE Kept(w)
  <2> DEFINE r == wakers[v].req
             q == gather_leases(v, r.digest)
  <2>1. holders' = issue_lease(Asked(v), v) /\ now' = now
        /\ wakers' = [wakers EXCEPT ![v].state = "live", ![v].exp = now + Ttl,
                                    ![v].split = r.split, ![v].quorum = q]
    BY <1>4 DEF Wake, sealing
  <2>2. CASE v # w
    BY <2>1, <2>2, <1>grant, <1>wakers
  <2>3. CASE v = w
    <3>1. /\ wakers'[w].quorum = q /\ wakers'[w].split = r.split /\ wakers'[w].exp = now + Ttl
          /\ wakers'[w].req = r
      BY <2>1, <2>3, <1>wakers, <1>req DEF Attempts
    <3>2. Enough(q)
      <4>1. PICK p : p \in First(q)
        BY <1>4 DEF Wake, Reconstituted
      <4>2. q \in SUBSET Holders
        BY DEF gather_leases, Asked
      <4> QED BY <4>1, <4>2, EnoughShares
    <3>3. ASSUME NEW h \in q
          PROVE  holders'[h].lease.id = w /\ holders'[h].lease.exp = now + Ttl
      <4>1. h \in Asked(v) /\ h \in Holders
        BY DEF gather_leases, Asked
      <4>2. \A hs : hs \subseteq Asked(v) /\ holders' = issue_lease(hs, v) /\ h \in hs =>
              holders'[h].lease = [id |-> v, exp |-> now + Ttl]
        BY <4>1, LeaseTaken
      <4>3. holders'[h].lease = [id |-> v, exp |-> now + Ttl]
        BY <4>1, <4>2, <2>1
      <4> QED BY <4>3, <2>3
    <3> QED BY <3>1, <3>2, <3>3, <2>1
  <2> QED BY <2>2, <2>3
<1>5. ASSUME NEW v \in Wakers, WakeFails(v) PROVE Kept(w)
  <2>1. holders' = issue_lease(Asked(v), v) /\ now' = now /\ wakers'[w] = wakers[w]
    BY <1>5, <1>goal, <1>wakers DEF WakeFails, Over, Attempts
  <2> QED BY <2>1, <1>grant
<1>6. ASSUME NEW v \in Wakers, WakerDies(v) PROVE Kept(w)
  <2>1. PICK n \in 1 .. Shares : holders' = issue_lease(Asked(v) \cap 1 .. n, v)
    BY <1>6 DEF WakerDies
  <2>2. now' = now /\ wakers'[w] = wakers[w]
    BY <1>6, <1>goal, <1>wakers DEF WakerDies, Over, Attempts
  <2> QED BY <2>1, <2>2, <1>grant
<1>7. ASSUME NEW v \in Wakers, Renew(v) PROVE Kept(w)
  <2> DEFINE q == gather_leases(v, wakers[v].req.digest)
  <2>1. holders' = issue_lease(Asked(v), v) /\ now' = now
    BY <1>7 DEF Renew
  <2>2. CASE wakers'[w] = wakers[w]
    BY <2>1, <2>2, <1>grant
  <2>3. CASE wakers'[w] # wakers[w]
    <3>1. v = w /\ Enough(q) /\ wakers'[w].quorum = q /\ wakers'[w].exp = now + Ttl
          /\ wakers'[w].split = wakers[w].split /\ wakers'[w].req = wakers[w].req
          /\ wakers[w].state = "live"
      BY <1>7, <2>3, <1>wakers, <1>req DEF Renew, is_live, Attempts
    <3>2. ASSUME NEW h \in q
          PROVE  holders'[h].lease.id = w /\ holders'[h].lease.exp = now + Ttl
      <4>1. h \in Asked(v) /\ h \in Holders
        BY DEF gather_leases, Asked
      <4>2. \A hs : hs \subseteq Asked(v) /\ holders' = issue_lease(hs, v) /\ h \in hs =>
              holders'[h].lease = [id |-> v, exp |-> now + Ttl]
        BY <4>1, LeaseTaken
      <4>3. holders'[h].lease = [id |-> v, exp |-> now + Ttl]
        BY <4>1, <4>2, <2>1
      <4> QED BY <4>3, <3>1
    <3> QED BY <3>1, <3>2, <2>1, <1>live
  <2> QED BY <2>2, <2>3
<1> QED BY <1>1, <1>2, <1>3, <1>4, <1>5, <1>6, <1>7 DEF Next

----------------------------------------------------------------------------
(* One runtime per seal.                                                      *)

\* A runtime starts only from a quorum of holders that guard its request's
\* split and lease to nobody else.
LEMMA WakeQuorum ==
  ASSUME TypeOK, NEW x \in Wakers, Wake(x)
  PROVE  \E q \in SUBSET Holders :
           /\ Enough(q) /\ q # {}
           /\ \A h \in q : /\ holders[h].split = wakers[x].req.split
                           /\ Free(holders[h].lease, x)
<1>1. PICK q \in First(gather_leases(x, wakers[x].req.digest)) : \A h \in q : Bound(h, wakers[x].req)
  BY DEF Wake, Reconstituted
<1>2. gather_leases(x, wakers[x].req.digest) \in SUBSET Holders
  BY DEF gather_leases, Asked
<1>3. Enough(q)
  BY <1>1, <1>2, EnoughShares
<1>4. q \subseteq gather_leases(x, wakers[x].req.digest)
  BY <1>1 DEF First
<1>5. q # {}
  BY <1>3, FS_EmptySet, Numbers DEF Enough
<1>6. \A h \in q : Free(holders[h].lease, x)
  BY <1>4 DEF gather_leases, Asked, Leases
<1> QED BY <1>1, <1>2, <1>3, <1>4, <1>5, <1>6 DEF Bound

\* A runtime that was not live before is started by its own Wake.
LEMMA OnlyWakeStarts ==
  ASSUME TypeOK, [Next]_vars, NEW v \in Wakers, ~Wake(v)
  PROVE  /\ Starts(v) => FALSE
         /\ is_live(v)' => is_live(v) /\ wakers'[v].split = wakers[v].split
<1>wakers. wakers \in [Wakers -> Attempts] /\ now \in Nat /\ wakers[v].exp \in Nat
  BY Times DEF TypeOK
<1> USE DEF Starts, is_live
<1>1. CASE wakers'[v] = wakers[v] /\ now' \in {now, now + 1}
  BY <1>1, <1>wakers
<1>2. CASE wakers'[v].state \notin {"live"}
  BY <1>2
<1>3. CASE Renew(v)
  BY <1>3, <1>wakers DEF Renew, Attempts
<1>4. ASSUME NEW w \in Wakers, w # v, Fetch(w) \/ Wake(w) \/ WakeFails(w) \/ WakerDies(w) \/ Renew(w)
      PROVE  wakers'[v] = wakers[v] /\ now' = now
  BY <1>4, <1>wakers DEF Fetch, Wake, WakeFails, WakerDies, Over, Renew
<1>5. CASE Fetch(v) \/ WakeFails(v) \/ WakerDies(v)
  BY <1>5, <1>2, <1>wakers DEF Fetch, WakeFails, WakerDies, Over, Idle, Attempts
<1>6. CASE Seal \/ Tick \/ Arrives \/ HolderLost \/ UNCHANGED vars
  <2>1. UNCHANGED wakers /\ now' \in {now, now + 1}
    BY <1>6 DEF Seal, Unready, Quiesce, Distribute, DistributeFails, LocalVerify, Publish, Confirm,
       Unconfirmed, Freeze, FreezeFails, Tombstone, Cancelled, Tick, Arrives, HolderLost, vars
  <2> QED BY <2>1, <1>1
<1> QED BY <1>1, <1>3, <1>4, <1>5, <1>6 DEF Next

LEMMA OneLiveStep == TypeOK /\ Fenced /\ OneLiveRuntime /\ [Next]_vars => OneLiveRuntime'
<1> SUFFICES ASSUME TypeOK, Fenced, OneLiveRuntime, [Next]_vars PROVE OneLiveRuntime'
  OBVIOUS
<1> USE Times
\* A new runtime finds no other of its split alive.
<1>1. ASSUME NEW x \in Wakers, Wake(x), NEW v \in Wakers, v # x, is_live(v)',
             wakers'[v].split = wakers'[x].split
      PROVE  FALSE
  <2>1. wakers'[v] = wakers[v] /\ now' = now /\ wakers'[x].split = wakers[x].req.split
    BY <1>1 DEF Wake, TypeOK, Attempts, sealing
  <2>2. wakers[v].state = "live" /\ now < wakers[v].exp /\ wakers[v].split = wakers[x].req.split
    BY <1>1, <2>1 DEF is_live
  <2>3. PICK q \in SUBSET Holders :
          /\ Enough(q)
          /\ \A h \in q : holders[h].split = wakers[x].req.split /\ Free(holders[h].lease, x)
    BY <1>1, WakeQuorum
  <2>4. Enough(wakers[v].quorum) /\ wakers[v].quorum \in SUBSET Holders
        /\ \A h \in wakers[v].quorum : Behind(h, v)
    BY <2>2 DEF Fenced, Behind
  <2>5. PICK h \in q : h \in wakers[v].quorum
    BY <2>3, <2>4, HibernateAssumption DEF Enough
  <2>6. h \in Holders /\ holders[h].split = wakers[v].split /\ Free(holders[h].lease, x)
    BY <2>2, <2>3, <2>5
  <2>7. holders[h].lease.id = v /\ holders[h].lease.exp >= wakers[v].exp
    BY <2>2, <2>4, <2>5, <2>6 DEF Behind
  <2> QED BY <1>1, <2>2, <2>6, <2>7 DEF Free
<1>2. ASSUME NEW v \in Wakers, NEW w \in Wakers, is_live(v)', is_live(w)',
             wakers'[v].split = wakers'[w].split
      PROVE  v = w
  <2>1. CASE Wake(v)
    BY <2>1, <1>1, <1>2
  <2>2. CASE Wake(w)
    BY <2>2, <1>1, <1>2
  <2>3. CASE ~Wake(v) /\ ~Wake(w)
    <3>1. is_live(v) /\ is_live(w) /\ wakers[v].split = wakers[w].split
      BY <2>3, <1>2, OnlyWakeStarts
    <3> QED BY <3>1 DEF OneLiveRuntime
  <2> QED BY <2>1, <2>2, <2>3
<1>3. \A v, w \in Wakers : is_live(v)' /\ is_live(w)' /\ wakers'[v].split = wakers'[w].split => v = w
  BY <1>2
<1> QED BY <1>3 DEF OneLiveRuntime

----------------------------------------------------------------------------
(* The invariant and the properties.                                          *)

Safe == TypeOK /\ Course /\ Handed /\ Reached /\ Fenced /\ OneLiveRuntime

LEMMA SafeInit == Init => Safe
<1> SUFFICES ASSUME Init PROVE Safe
  OBVIOUS
<1> USE Constants, Numbers
<1>1. TypeOK
  BY TypesInit
<1>2. Course
  BY DEF Init, Course, Planned, Revoking
<1>3. Handed
  BY DEF Init, Handed, NoShare
<1>4. \A w \in Wakers : wakers[w].state = "idle" /\ wakers[w].req = NoRequest
  BY DEF Init, Idle
<1>5. OutThere \subseteq {NoRequest}
  BY <1>4 DEF Init, OutThere
<1>6. Reached
  BY <1>4, <1>5 DEF Init, Reached, Revoking, Quiet, NoShare, NoRequest
<1>7. Fenced /\ OneLiveRuntime
  BY <1>4 DEF Fenced, OneLiveRuntime, is_live
<1> QED BY <1>1, <1>2, <1>3, <1>6, <1>7 DEF Safe

LEMMA SafeStep == Safe /\ [Next]_vars => Safe'
  BY TypesStep, CourseStep, HandedStep, ReachedStep, FencedStep, OneLiveStep DEF Safe

LEMMA AlwaysSafe == Spec => []Safe
  BY SafeInit, SafeStep, PTL DEF Spec

\* A seal that wiped its seed left an agent that can come back: for any number
\* of holders and wakers, any times and any faults.  (seal, receive_share.)
THEOREM SleepRecovers == Spec => []SleepIsRecoverable
<1>1. Safe => SleepIsRecoverable
  BY DEF Safe, Course, Handed, Planned, SleepIsRecoverable
<1> QED BY <1>1, AlwaysSafe, PTL

\* Two wakers are never both live from one seal, for every lease lifetime and
\* any holders two quorums of which meet.  (issue_lease, aggregate_lease.)
THEOREM OneRuntimePerSeal == Spec => []OneLiveRuntime
<1>1. Safe => OneLiveRuntime
  BY DEF Safe
<1> QED BY <1>1, AlwaysSafe, PTL

\* A request that is out while the agent is awake and every publish of it is
\* settled is behind every holder, so nobody starts from it.  (revoke: the
\* holders are frozen before the call returns.)
THEOREM AwakeStaysUnresurrected == Spec => AwakeNotResurrected
<1>1. ASSUME Safe, [Next]_vars, NEW w \in Wakers, Starts(w), ~loose,
             phase \notin {"confirm", "revoke", "asleep"}
      PROVE  FALSE
  <2>1. Wake(w)
    BY <1>1, OnlyWakeStarts DEF Safe
  <2>2. Quiet
    BY <1>1 DEF Safe, TypeOK, Quiet
  <2>3. wakers[w].req \in OutThere /\ wakers[w].req # NoRequest
    BY <1>1, <2>1 DEF Wake, OutThere, Safe, Reached
  <2>4. PICK q \in SUBSET Holders :
          q # {} /\ \A h \in q : holders[h].split = wakers[w].req.split
    BY <1>1, <2>1, WakeQuorum DEF Safe
  <2>5. PICK h \in q : h \in Holders /\ holders[h].split = wakers[w].req.split
    BY <2>4
  <2>6. holders[h].split > wakers[w].req.split
    BY <1>1, <2>2, <2>3, <2>5 DEF Safe, Reached
  <2> QED BY <1>1, <2>5, <2>6, Times DEF Safe
<1>2. Safe /\ [Next]_vars =>
        [\A w \in Wakers : Starts(w) => loose \/ phase \in {"confirm", "revoke", "asleep"}]_vars
  BY <1>1
<1> QED BY <1>2, AlwaysSafe, PTL DEF Spec, AwakeNotResurrected
=============================================================================
