------------------------------- MODULE Cosign -------------------------------
(* Signing under the agent's group key across machines: QuorumSigner runs the  *)
(* two rounds of a ceremony with a threshold of the holders, one holder after  *)
(* the other, through a relay, and tries the next subset of holders when one   *)
(* fails.  A holder keeps its single-use nonces in memory, by session.         *)
(*                                                                             *)
(* The relay delays, reorders and loses frames; a frame that several relays    *)
(* carry may come again.                                                       *)
(* The coordinator is honest; what a share commits to is its package.          *)
EXTENDS Naturals, Sequences, FiniteSets

CONSTANTS
  Holders,      \* the FROST identifiers 1..n
  Threshold,    \* MIN_SIGNERS
  Callers,      \* the threads that share the one memoized signer
  Messages, NoMessage,
  NoShare,
  MaxRequests,  \* bound: how many signatures are asked for
  MaxLives,     \* bound: how often the coordinator is started
  MaxCrashes,   \* bound: how often a holder restarts
  MaxMisses,    \* bound: how many waits end without a reply
  MaxOverdue,   \* bound: how many frames arrive after the wait for them has ended
  MaxDups       \* bound: how many frames arrive a second time

\* The reserved address, that no holder has.
coordinator_id == 0
Commitment == [holder: Holders, nonce: Nat]
Package == [msg: Messages, commitments: SUBSET Commitment]
Share == [holder: Holders, nonce: Nat, package: Package]
Request == [to: Holders, life: Nat, session: Nat, round: {"commit", "package"},
            package: Package, intent: Messages, signer_set: SUBSET Holders]
Response == [to: {coordinator_id}, from: Holders, session: Nat,
             round: {"commitment", "share", "refusal"}, nonce: Nat, share: Share \cup {NoShare}]
Ceremony == [msg: Messages \cup {NoMessage}, signer_set: SUBSET Holders, tried: SUBSET SUBSET Holders,
             session: Nat, round: {"commit", "package"}, awaits: Holders \cup {coordinator_id},
             commitments: SUBSET Commitment, parts: SUBSET Share, missed: SUBSET Holders]

ASSUME CosignAssumption ==
  /\ Holders \subseteq Nat \ {coordinator_id} /\ IsFiniteSet(Holders)
  /\ Threshold \in Nat \ {0} /\ Threshold <= Cardinality(Holders)
  /\ NoMessage \notin Messages /\ NoShare \notin Share
  /\ {MaxRequests, MaxLives, MaxCrashes, MaxMisses, MaxOverdue, MaxDups} \subseteq Nat

VARIABLES
  next_session,  \* QuorumSigner::next_session, from 0 in every life
  ceremony,      \* each caller's sign_nostr_event_with_tags
  queue,         \* the reply channel of each holder's transport
  nonces,        \* RemoteHolderServer::nonces: which holder keeps which nonce for which session
  guard,         \* ReplayGuard::seen of each holder
  wire,          \* the frames the relay carries
  delivered,     \* those of them its receiver already has (SeenEvents)
  asked,         \* how many requests there were
  lives, crashes, misses, overdue, dups,
  made,          \* how many nonces each holder has drawn
  shares,        \* history: the shares ever made
  emitted,       \* history: the messages signed
  failures,      \* history: how requests failed
  late           \* history: the holders that timed out or restarted in this life of the coordinator

coordinator == <<next_session, ceremony, queue, asked>>
holder == <<nonces, guard, made, shares>>
relay == <<wire, delivered, misses, overdue, dups>>
history == <<emitted, failures, late>>
vars == <<coordinator, holder, relay, history, lives, crashes>>

TypeOK ==
  /\ next_session \in Nat /\ asked \in Nat /\ lives \in Nat /\ crashes \in Nat
  /\ misses \in Nat /\ overdue \in Nat /\ dups \in Nat
  /\ ceremony \in [Callers -> Ceremony]
  /\ queue \in [Holders -> Seq(Response)]
  /\ nonces \subseteq [holder: Holders, session: Nat, nonce: Nat]
  /\ guard \in [Holders -> SUBSET [session: Nat, round: {"commit", "package"}, life: Nat]]
  /\ wire \subseteq Request \cup Response /\ delivered \subseteq wire
  /\ made \in [Holders -> Nat] /\ shares \subseteq Share /\ emitted \subseteq Messages
  /\ failures \subseteq [life: Nat, missed: SUBSET Holders, late: SUBSET Holders]
  /\ late \subseteq Holders

-----------------------------------------------------------------------------
(* The coordinator                                                           *)

\* The subsets of a threshold of the holders; the lists of two of them in lexicographic order.
Combinations == {Q \in SUBSET Holders : Cardinality(Q) = Threshold}
Before(P, Q) == \E x \in P \ Q : \A y \in Q \ P : x < y

\* quorum_subsets: the subsets still to be tried once those of tried have been.
quorum_subsets_Mut(tried) == IF tried = {} THEN Combinations ELSE {} \* mutation: no fallback
quorum_subsets(tried) == Combinations \ tried

Idle == [msg |-> NoMessage, signer_set |-> {}, tried |-> {}, session |-> 0, round |-> "commit",
         awaits |-> coordinator_id, commitments |-> {}, parts |-> {}, missed |-> {}]
Active(c) == ceremony[c].msg # NoMessage
PackageOf(w) == [msg |-> w.msg, commitments |-> w.commitments]

Init ==
  /\ next_session = 0 /\ ceremony = [c \in Callers |-> Idle]
  /\ queue = [h \in Holders |-> <<>>]
  /\ nonces = {} /\ guard = [h \in Holders |-> {}]
  /\ wire = {} /\ delivered = {}
  /\ asked = 0 /\ lives = 1 /\ crashes = 0 /\ misses = 0 /\ overdue = 0 /\ dups = 0
  /\ made = [h \in Holders |-> 0]
  /\ shares = {} /\ emitted = {} /\ failures = {} /\ late = {}

\* The frame a ceremony that stands at w sends to the holder it then waits for.
FrameOf(w) ==
  [to |-> w.awaits, life |-> lives, session |-> w.session, round |-> w.round,
   package |-> [PackageOf(w) EXCEPT !.commitments = IF w.round = "commit" THEN {} ELSE @],
   intent |-> w.msg, signer_set |-> w.signer_set]

\* The ceremony goes on as w with the first of the holders it has not heard in this round.
GoOn(c, w, unheard, frames) ==
  \E h \in unheard :
  LET asking == [w EXCEPT !.awaits = h] IN
  /\ \A k \in unheard : h <= k
  /\ ceremony' = [ceremony EXCEPT ![c] = asking]
  /\ wire' = frames \cup {FrameOf(asking)}

\* try_subset_ceremony: a fresh session, with the first subset not tried.
Attempt(c, m, tried, missed, frames) ==
  \E Q \in quorum_subsets(tried) :
  /\ \A R \in quorum_subsets(tried) : R = Q \/ Before(Q, R)
  /\ GoOn(c, [Idle EXCEPT !.msg = m, !.signer_set = Q, !.tried = tried \cup {Q},
                          !.session = next_session, !.missed = missed], Q, frames)
  /\ next_session' = next_session + 1

Start(c) ==
  /\ ~Active(c) /\ asked < MaxRequests
  /\ \E m \in Messages : Attempt(c, m, {}, {}, wire)
  /\ asked' = asked + 1
  /\ UNCHANGED <<queue, holder, delivered, misses, overdue, dups, history, lives, crashes>>

\* An attempt failed: the next subset is tried, and after the last the request fails.
Abandon(c, missed, frames) ==
  LET w == ceremony[c] IN
  \/ /\ Attempt(c, w.msg, w.tried, missed, frames)
     /\ UNCHANGED failures
  \/ /\ quorum_subsets(w.tried) = {}
     /\ ceremony' = [ceremony EXCEPT ![c] = Idle]
     /\ failures' = failures \cup {[life |-> lives, missed |-> missed, late |-> late']}
     /\ wire' = frames
     /\ UNCHANGED next_session

\* first_sight: what is gone from the relay need not be remembered.
Remembered(gone) == delivered \ gone

\* The frames of the exchange a caller waits for.
Exchange(c) ==
  LET w == ceremony[c] IN
  {f \in wire : f.session = w.session /\ IF f.to = coordinator_id THEN f.from = w.awaits
                                         ELSE f.to = w.awaits /\ f.life = lives /\ f.round = w.round}

\* recv_timeout: the wait has an end.  What it waited for is lost, or still comes.
TimesOut(c) ==
  LET h == ceremony[c].awaits IN
  /\ Active(c) /\ queue[h] = <<>>
  /\ misses < MaxMisses /\ misses' = misses + 1
  /\ late' = late \cup {h}
  /\ \/ /\ Abandon(c, ceremony[c].missed \cup {h}, wire \ Exchange(c))
        /\ delivered' = Remembered(Exchange(c))
        /\ UNCHANGED overdue
     \/ /\ overdue < MaxOverdue /\ overdue' = overdue + 1
        /\ Abandon(c, ceremony[c].missed \cup {h}, wire)
        /\ UNCHANGED delivered
  /\ UNCHANGED <<queue, asked, holder, dups, emitted, lives, crashes>>

\* The next reply of the channel, whichever request it answers.
Popped(c) == LET h == ceremony[c].awaits IN queue' = [queue EXCEPT ![h] = Tail(@)]
Reply(c) == Head(queue[ceremony[c].awaits])
Answered(c) == Active(c) /\ queue[ceremony[c].awaits] # <<>>

\* RemoteHolder: the reply is of this session, and is what the round asks for.
Fits(w, r) == r.session = w.session /\ r.round = (IF w.round = "commit" THEN "commitment" ELSE "share")

Misfit(c) ==
  /\ Answered(c) /\ ~Fits(ceremony[c], Reply(c))
  /\ Popped(c) /\ UNCHANGED late
  /\ Abandon(c, ceremony[c].missed, wire)
  /\ UNCHANGED <<asked, holder, delivered, misses, overdue, dups, emitted, lives, crashes>>

\* Round 1: the commitment is noted; after the last one the package goes out.
Committed(c) ==
  LET w == ceremony[c]
      noted == [w EXCEPT !.commitments = @ \cup {[holder |-> w.awaits, nonce |-> Reply(c).nonce]}]
      unheard == {h \in w.signer_set : \A k \in noted.commitments : k.holder # h} IN
  /\ Answered(c) /\ w.round = "commit" /\ Fits(w, Reply(c))
  /\ \/ GoOn(c, noted, unheard, wire)
     \/ unheard = {} /\ GoOn(c, [noted EXCEPT !.round = "package"], w.signer_set, wire)
  /\ Popped(c)
  /\ UNCHANGED <<next_session, asked, holder, delivered, misses, overdue, dups, history, lives, crashes>>

\* Round 2: the shares by now, and the holders still to be asked.
PartsOf(c) == ceremony[c].parts \cup {Reply(c).share}
Unsigned(c) == {h \in ceremony[c].signer_set : \A x \in PartsOf(c) : x.holder # h}

Signed(c) ==
  LET w == ceremony[c] IN
  /\ Answered(c) /\ w.round = "package" /\ Fits(w, Reply(c))
  /\ GoOn(c, [w EXCEPT !.parts = PartsOf(c)], Unsigned(c), wire)
  /\ Popped(c)
  /\ UNCHANGED <<next_session, asked, holder, delivered, misses, overdue, dups, history, lives, crashes>>

\* aggregate_with_tweak: every signer's share is of this package and of the nonce it committed to.
Aggregates_Mut(w, parts) == parts # {} \* mutation: the shares are not verified
Aggregates(w, parts) ==
  \A h \in w.signer_set : \E x \in parts :
    /\ x.holder = h /\ x.package = PackageOf(w)
    /\ [holder |-> h, nonce |-> x.nonce] \in w.commitments

LastShare(c) ==
  LET w == ceremony[c] IN
  /\ Answered(c) /\ w.round = "package" /\ Fits(w, Reply(c)) /\ Unsigned(c) = {}
  /\ Popped(c) /\ UNCHANGED late
  /\ \/ /\ Aggregates(w, PartsOf(c))
        /\ emitted' = emitted \cup {w.msg}
        /\ ceremony' = [ceremony EXCEPT ![c] = Idle]
        /\ UNCHANGED <<next_session, wire, failures>>
     \/ /\ ~Aggregates(w, PartsOf(c))
        /\ Abandon(c, w.missed, wire)
        /\ UNCHANGED emitted
  /\ UNCHANGED <<asked, holder, delivered, misses, overdue, dups, lives, crashes>>

-----------------------------------------------------------------------------
(* The relay and the holders                                                 *)

\* A frame reaches its receiver; a copy of it may stay on the way.
Deliver(f, replies) ==
  /\ UNCHANGED <<misses, overdue>>
  /\ \/ wire' = (wire \ {f}) \cup replies /\ UNCHANGED <<delivered, dups>>
     \/ /\ dups < MaxDups /\ dups' = dups + 1
        /\ wire' = wire \cup replies /\ delivered' = delivered \cup {f}

Requests(h) == {f \in wire \ delivered : f.to = h}
Replies == {f \in wire \ delivered : f.to = coordinator_id}

\* coordinator_actor: by the sender to that holder's channel, whoever waits there.
Route(f) ==
  /\ f \in Replies
  /\ queue' = [queue EXCEPT ![f.from] = Append(@, f)]
  /\ Deliver(f, {})
  /\ UNCHANGED <<next_session, ceremony, asked, holder, history, lives, crashes>>

Answer(h, f, round, nonce, share) ==
  [to |-> coordinator_id, from |-> h, session |-> f.session, round |-> round, nonce |-> nonce, share |-> share]
Refusal(h, f) == Answer(h, f, "refusal", 0, NoShare)

Key(f) == [session |-> f.session, round |-> f.round, life |-> f.life]
Seen(h, f) == \E e \in guard[h] : e.session = f.session /\ e.round = f.round

\* A replayed solicit is dropped without a reply.
Dropped(h, f) ==
  /\ f \in Requests(h) /\ Seen(h, f)
  /\ Deliver(f, {})
  /\ UNCHANGED <<coordinator, holder, history, lives, crashes>>

admit(h, f) ==
  /\ f \in Requests(h) /\ ~Seen(h, f)
  /\ guard' = [guard EXCEPT ![h] = @ \cup {Key(f)}]

NonceOf(h, s) == {n \in nonces : n.holder = h /\ n.session = s}

handle_commit(h, f) ==
  /\ f.round = "commit" /\ admit(h, f)
  /\ \/ /\ NonceOf(h, f.session) # {}
        /\ Deliver(f, {Refusal(h, f)})
        /\ UNCHANGED <<nonces, made>>
     \/ /\ NonceOf(h, f.session) = {}
        /\ made' = [made EXCEPT ![h] = @ + 1]
        /\ nonces' = nonces \cup {[holder |-> h, session |-> f.session, nonce |-> made[h] + 1]}
        /\ Deliver(f, {Answer(h, f, "commitment", made[h] + 1, NoShare)})
  /\ UNCHANGED <<coordinator, shares, history, lives, crashes>>

\* guardian::validate: the package is of the intent, by the claimed quorum, this holder in it.
validate(h, f) ==
  /\ f.package.msg = f.intent
  /\ h \in f.signer_set /\ Cardinality(f.signer_set) >= Threshold
  /\ f.signer_set = {k.holder : k \in f.package.commitments}

\* round2::sign refuses a package that does not carry the commitment of this nonce.
Commits(h, n, p) == [holder |-> h, nonce |-> n.nonce] \in p.commitments

\* The nonce is taken out before anything is looked at, whatever comes of the request.
Kept_Mut(h, f) == nonces \* mutation: the nonce is read and left in the store
Kept(h, f) == nonces \ NonceOf(h, f.session)

handle_sign(h, f) ==
  /\ f.round = "package" /\ admit(h, f)
  /\ nonces' = Kept(h, f)
  /\ \/ /\ ~\E n \in NonceOf(h, f.session) : validate(h, f) /\ Commits(h, n, f.package)
        /\ Deliver(f, {Refusal(h, f)})
        /\ UNCHANGED shares
     \/ \E n \in NonceOf(h, f.session) :
        LET share == [holder |-> h, nonce |-> n.nonce, package |-> f.package] IN
        /\ validate(h, f) /\ Commits(h, n, f.package)
        /\ shares' = shares \cup {share}
        /\ Deliver(f, {Answer(h, f, "share", 0, share)})
  /\ UNCHANGED <<coordinator, made, history, lives, crashes>>

\* The window passes for what holder h admitted up to the frame of e.  Freshness goes by the
\* coordinator's clock and the entries by the holder's: by then the request frames as old are
\* stale, or still fresh, their clock being ahead.  (One that is behind has frames refused
\* sooner, which is a loss.)  Within the life that sent them the keys are distinct, so that
\* only the entries of an earlier life of the coordinator matter.
Upto(x, e) == x.life < e.life \/ (x.life = e.life /\ x.session <= e.session)
Expire(h) ==
  \E e \in guard[h] :
  /\ e.life < lives
  /\ guard' = [guard EXCEPT ![h] = {x \in @ : ~Upto(x, e)}]
  /\ \/ LET stale == {f \in wire : f.to = h /\ Upto(Key(f), e)} IN
        wire' = wire \ stale /\ delivered' = Remembered(stale)
     \/ UNCHANGED <<wire, delivered>>
  /\ UNCHANGED <<coordinator, nonces, made, shares, misses, overdue, dups, history, lives, crashes>>

HolderRestart(h) ==
  /\ crashes < MaxCrashes /\ crashes' = crashes + 1
  /\ nonces' = {n \in nonces : n.holder # h}
  /\ guard' = [guard EXCEPT ![h] = {}]
  /\ delivered' = {f \in delivered : f.to # h}
  /\ late' = late \cup {h}
  /\ ceremony' = [c \in Callers |-> IF Active(c) THEN [ceremony[c] EXCEPT !.missed = @ \cup {h}] ELSE Idle]
  /\ UNCHANGED <<next_session, queue, asked, made, shares, wire, misses, overdue, dups, emitted, failures, lives>>

\* The agent's process ends and is started again: its sessions count from 0.
Restart ==
  /\ lives < MaxLives /\ lives' = lives + 1
  /\ next_session' = 0 /\ ceremony' = [c \in Callers |-> Idle]
  /\ queue' = [h \in Holders |-> <<>>]
  /\ delivered' = {f \in delivered : f.to # coordinator_id}
  /\ late' = {}
  /\ UNCHANGED <<asked, holder, wire, misses, overdue, dups, emitted, failures, crashes>>

Next ==
  \/ \E c \in Callers : Start(c) \/ TimesOut(c) \/ Misfit(c) \/ Committed(c) \/ Signed(c) \/ LastShare(c)
  \/ \E f \in wire : Route(f)
  \/ \E h \in Holders : Expire(h) \/ HolderRestart(h)
  \/ \E h \in Holders : \E f \in Requests(h) : Dropped(h, f) \/ handle_commit(h, f) \/ handle_sign(h, f)
  \/ Restart

Spec == Init /\ [][Next]_vars

-----------------------------------------------------------------------------
(* Properties                                                                *)

\* A nonce makes one share at most: not two of different packages, though the sessions of an
\* earlier life come again and frames of it are still on the way (remote_holder.rs 422-431).
NonceSignsOnce ==
  \A x, y \in shares : x.holder = y.holder /\ x.nonce = y.nonce => x = y

\* What is emitted was asked for and endorsed by a threshold of the holders, each for itself.
Oracle == INSTANCE SigningOracle WITH
  asked <- [c \in Callers |-> ceremony[c].msg],
  endorsed <- {<<x.holder, x.package.msg>> : x \in shares}
KeepsThePromise == Oracle!Spec

\* Within one life a lone caller's request fails only if no threshold of the holders was free
\* of timeouts and restarts so far: the fallback tries every subset.
FailureExplained ==
  \A f \in failures : f.life = 1 => \A Q \in Combinations : Q \cap f.late # {}

\* quorum_signer.rs 317: "the all-healthy path"; relay_transport.rs 1643: the wire "self-heals
\* for the next ceremony", a lag "can only cost a clean retry": a request during which no wait
\* ended and no holder restarted does not fail.
SelfHeals == \A f \in failures : f.life = 1 => f.missed # {}
=============================================================================
