---------------------------- MODULE CosignProofs ----------------------------
(* A nonce signs once, however often sessions come again and whatever the      *)
(* relay delivers.  The argument is the holder's alone: a nonce is drawn new,  *)
(* and the step that makes a share of it takes it out of the store.            *)
(* The ceremony implements the oracle, and a lone caller is refused only when  *)
(* every subset of the holders has one that was late.                          *)
EXTENDS Cosign, TLAPS, FiniteSetTheorems, SequenceTheorems

\* Nonces are numbered as drawn, live for one session, and not live once signed with.
NonceInv ==
  /\ made \in [Holders -> Nat]
  /\ \A n \in nonces : n.holder \in Holders /\ n.nonce \in 1..made[n.holder]
  /\ \A n, k \in nonces : n.holder = k.holder /\ n.nonce = k.nonce => n = k
  /\ \A x \in shares : x.holder \in Holders /\ x.nonce \in 1..made[x.holder]
  /\ \A x \in shares, n \in nonces : x.holder = n.holder => x.nonce # n.nonce
  /\ NonceSignsOnce

LEMMA NonceInit == Init => NonceInv
BY DEF Init, NonceInv, NonceSignsOnce

\* Drawing a nonce.
LEMMA CommitKeepsNonces ==
  ASSUME NonceInv, NEW h \in Holders, NEW f \in Requests(h), handle_commit(h, f)
  PROVE  NonceInv'
<1>1. CASE UNCHANGED <<nonces, made>>
  BY <1>1 DEF NonceInv, NonceSignsOnce, handle_commit
<1>2. CASE /\ made' = [made EXCEPT ![h] = @ + 1]
           /\ nonces' = nonces \cup {[holder |-> h, session |-> f.session, nonce |-> made[h] + 1]}
  <2> DEFINE new == [holder |-> h, session |-> f.session, nonce |-> made[h] + 1]
  <2>1. shares' = shares
    BY DEF handle_commit
  <2>2. /\ made' \in [Holders -> Nat] /\ made'[h] = made[h] + 1
        /\ \A g \in Holders \ {h} : made'[g] = made[g]
    BY <1>2 DEF NonceInv
  <2>3. \A g \in Holders : made[g] \in Nat /\ 1..made[g] \subseteq 1..made'[g] /\ made[h] + 1 \notin 1..made[h]
    BY <2>2 DEF NonceInv
  <2>4. new.holder = h /\ new.nonce = made[h] + 1 /\ new.nonce \in 1..made'[h]
    BY <2>2, <2>3
  <2>5. \A n \in nonces' : n \in nonces \/ n = new
    BY <1>2
  <2>6. \A n \in nonces : n.holder = h => n.nonce # new.nonce
    BY <2>3, <2>4 DEF NonceInv
  <2>7. \A x \in shares : x.holder = h => x.nonce # new.nonce
    BY <2>3, <2>4 DEF NonceInv
  <2>8. /\ \A n \in nonces' : n.holder \in Holders /\ n.nonce \in 1..made'[n.holder]
        /\ \A x \in shares' : x.holder \in Holders /\ x.nonce \in 1..made'[x.holder]
    BY <2>1, <2>3, <2>4, <2>5 DEF NonceInv
  <2>9. \A n, k \in nonces' : n.holder = k.holder /\ n.nonce = k.nonce => n = k
    BY <2>4, <2>5, <2>6 DEF NonceInv
  <2>10. \A x \in shares', n \in nonces' : x.holder = n.holder => x.nonce # n.nonce
    BY <2>1, <2>4, <2>5, <2>7 DEF NonceInv
  <2> QED
    BY <2>1, <2>2, <2>8, <2>9, <2>10 DEF NonceInv, NonceSignsOnce
<1> QED
  BY <1>1, <1>2 DEF handle_commit

\* Signing with one.
LEMMA SignKeepsNonces ==
  ASSUME NonceInv, NEW h \in Holders, NEW f \in Requests(h), handle_sign(h, f)
  PROVE  NonceInv'
<1>1. made' = made /\ nonces' = nonces \ NonceOf(h, f.session)
  BY DEF handle_sign, Kept
<1>2. CASE shares' = shares
  BY <1>1, <1>2 DEF NonceInv, NonceSignsOnce
<1>3. CASE \E n \in NonceOf(h, f.session) :
             shares' = shares \cup {[holder |-> h, nonce |-> n.nonce, package |-> f.package]}
  <2> PICK n \in NonceOf(h, f.session) :
        shares' = shares \cup {[holder |-> h, nonce |-> n.nonce, package |-> f.package]}
    BY <1>3
  <2> DEFINE new == [holder |-> h, nonce |-> n.nonce, package |-> f.package]
  <2>1. n \in nonces /\ n \notin nonces' /\ n.holder = h /\ new.holder = h /\ new.nonce = n.nonce
    BY <1>1 DEF NonceOf
  <2>2. \A x \in shares' : x \in shares \/ x = new
    OBVIOUS
  <2>3. \A x \in shares : x.holder = h => x.nonce # n.nonce
    BY <2>1 DEF NonceInv
  <2>4. \A k \in nonces' : k \in nonces /\ (k.holder = h => k.nonce # n.nonce)
    BY <1>1, <2>1 DEF NonceInv
  <2>5. \A x \in shares' : x.holder \in Holders /\ x.nonce \in 1..made'[x.holder]
    BY <1>1, <2>1, <2>2 DEF NonceInv
  <2>6. \A x \in shares', k \in nonces' : x.holder = k.holder => x.nonce # k.nonce
    BY <2>1, <2>2, <2>4 DEF NonceInv
  <2>7. NonceSignsOnce'
    BY <2>1, <2>2, <2>3 DEF NonceInv, NonceSignsOnce
  <2> QED
    BY <1>1, <2>5, <2>6, <2>7 DEF NonceInv
<1> QED
  BY <1>2, <1>3 DEF handle_sign

\* Nothing else draws a nonce or makes a share; a restarted holder forgets its own.
LEMMA NonceStep == NonceInv /\ [Next]_vars => NonceInv'
<1> SUFFICES ASSUME NonceInv, [Next]_vars PROVE NonceInv'
  OBVIOUS
<1>1. CASE UNCHANGED <<nonces, made, shares>>
  BY <1>1 DEF NonceInv, NonceSignsOnce
<1>2. CASE \E c \in Callers : \/ Start(c) \/ TimesOut(c) \/ Misfit(c)
                              \/ Committed(c) \/ Signed(c) \/ LastShare(c)
  BY <1>1, <1>2 DEF Start, TimesOut, Misfit, Committed, Signed, LastShare, holder
<1>3. CASE \E f \in wire : Route(f)
  BY <1>1, <1>3 DEF Route, holder
<1>4. ASSUME NEW h \in Holders, Expire(h) PROVE NonceInv'
  BY <1>1, <1>4 DEF Expire
<1>5. ASSUME NEW h \in Holders, HolderRestart(h) PROVE NonceInv'
  <2>1. made' = made /\ shares' = shares /\ nonces' \subseteq nonces
    BY <1>5 DEF HolderRestart
  <2> QED
    BY <2>1 DEF NonceInv, NonceSignsOnce
<1>6. ASSUME NEW h \in Holders, NEW f \in Requests(h), Dropped(h, f) PROVE NonceInv'
  BY <1>1, <1>6 DEF Dropped, holder
<1>7. CASE Restart
  BY <1>1, <1>7 DEF Restart, holder
<1>8. CASE UNCHANGED vars
  BY <1>1, <1>8 DEF vars, holder
<1> QED
  BY <1>2, <1>3, <1>4, <1>5, <1>6, <1>7, <1>8, CommitKeepsNonces, SignKeepsNonces DEF Next

\* RemoteHolderServer::handle_sign (remote_holder.rs 411-457): no nonce makes two shares.
THEOREM NonceSafety == Spec => []NonceSignsOnce
<1>1. NonceInv => NonceSignsOnce
  BY DEF NonceInv
<1> QED
  BY <1>1, NonceInit, NonceStep, PTL DEF Spec

-----------------------------------------------------------------------------
(* The round implements the oracle.  What the coordinator counts as a share is *)
(* one that its holder made, of the message that the holder was shown, so the  *)
(* subset it aggregates has endorsed the message.                              *)

CeremonyOK(w) ==
  /\ w \in Ceremony
  /\ w.msg # NoMessage => w.signer_set \in Combinations /\ w.awaits \in Holders

\* Every share that is on its way, queued or counted is one that was made.
Backed ==
  /\ \A c \in Callers : CeremonyOK(ceremony[c]) /\ ceremony[c].parts \subseteq shares
  /\ \A f \in wire : f \in Response /\ f.round = "share" => f.share \in shares
  /\ \A h \in Holders : \A i \in 1..Len(queue[h]) :
       queue[h][i].round = "share" => queue[h][i].share \in shares

RefInv == TypeOK /\ Backed

LEMMA Disjoint == Request \cap Response = {}
BY CosignAssumption DEF Request, Response, coordinator_id

LEMMA CombinationsAreHolders == \A Q \in Combinations : Q \subseteq Holders
BY DEF Combinations

LEMMA IdleOK == CeremonyOK(Idle) /\ Idle.msg = NoMessage /\ Idle.parts = {}
BY DEF CeremonyOK, Idle, Ceremony, coordinator_id

\* A ceremony that goes on keeps its message, its subset and its shares.
LEMMA GoOnOK ==
  ASSUME TypeOK, NEW c \in Callers, NEW w \in Ceremony, w.msg \in Messages, w.signer_set \in Combinations,
         NEW unheard \in SUBSET Holders, NEW frames, GoOn(c, w, unheard, frames)
  PROVE  \E v : /\ CeremonyOK(v) /\ v.msg = w.msg /\ v.parts = w.parts
                /\ ceremony' = [ceremony EXCEPT ![c] = v]
                /\ \E r \in Request : wire' = frames \cup {r}
<1> PICK h \in unheard : /\ ceremony' = [ceremony EXCEPT ![c] = [w EXCEPT !.awaits = h]]
                         /\ wire' = frames \cup {FrameOf([w EXCEPT !.awaits = h])}
  BY DEF GoOn
<1> DEFINE v == [w EXCEPT !.awaits = h]
<1>1. v \in Ceremony /\ v.msg = w.msg /\ v.parts = w.parts /\ v.signer_set = w.signer_set
       /\ v.awaits = h
  BY DEF Ceremony
<1>2. CeremonyOK(v)
  BY <1>1 DEF CeremonyOK
<1>3. PackageOf(v) \in Package
  BY <1>1 DEF PackageOf, Package, Ceremony
<1>4. [PackageOf(v) EXCEPT !.commitments = IF v.round = "commit" THEN {} ELSE @] \in Package
  BY <1>3 DEF Package
<1>5. FrameOf(v) \in Request
  BY <1>1, <1>4 DEF FrameOf, Request, Ceremony, TypeOK
<1> QED
  BY <1>1, <1>2, <1>5

LEMMA AttemptOK ==
  ASSUME TypeOK, NEW c \in Callers, NEW m \in Messages, NEW tried \in SUBSET SUBSET Holders,
         NEW missed \in SUBSET Holders, NEW frames, Attempt(c, m, tried, missed, frames)
  PROVE  /\ \E v : /\ CeremonyOK(v) /\ v.msg = m /\ v.parts = {}
                   /\ ceremony' = [ceremony EXCEPT ![c] = v]
         /\ \E r \in Request : wire' = frames \cup {r}
         /\ next_session' \in Nat
<1>0. PICK Q \in quorum_subsets(tried) :
      /\ GoOn(c, [Idle EXCEPT !.msg = m, !.signer_set = Q, !.tried = tried \cup {Q},
                              !.session = next_session, !.missed = missed], Q, frames)
      /\ next_session' = next_session + 1
  BY DEF Attempt
<1> DEFINE w == [Idle EXCEPT !.msg = m, !.signer_set = Q, !.tried = tried \cup {Q},
                             !.session = next_session, !.missed = missed]
<1>1. Q \in Combinations /\ Q \in SUBSET Holders
  BY CombinationsAreHolders DEF quorum_subsets
<1>2. next_session \in Nat
  BY DEF TypeOK
<1>3. w \in Ceremony /\ w.msg = m /\ w.signer_set = Q /\ w.parts = {}
  BY <1>1, <1>2, IdleOK DEF CeremonyOK, Idle, Ceremony, coordinator_id
<1>5. \E v : /\ CeremonyOK(v) /\ v.msg = w.msg /\ v.parts = w.parts
             /\ ceremony' = [ceremony EXCEPT ![c] = v]
             /\ \E r \in Request : wire' = frames \cup {r}
  <2> HIDE DEF w
  <2>1. w.msg \in Messages /\ GoOn(c, w, Q, frames)
    BY <1>0, <1>3 DEF w
  <2>2. w \in Ceremony /\ w.signer_set \in Combinations
    BY <1>1, <1>3 DEF w
  <2> QED
    BY <1>1, <2>1, <2>2, GoOnOK
<1>6. next_session' \in Nat
  BY <1>0, <1>2
<1> HIDE DEF w
<1> QED
  BY <1>3, <1>5, <1>6

\* A failed attempt leaves the same request, or none.
LEMMA AbandonOK ==
  ASSUME TypeOK, NEW c \in Callers, Active(c), NEW missed \in SUBSET Holders,
         late' \in SUBSET Holders, NEW frames, Abandon(c, missed, frames)
  PROVE  /\ \E v : /\ CeremonyOK(v) /\ v.msg \in {ceremony[c].msg, NoMessage} /\ v.parts = {}
                   /\ ceremony' = [ceremony EXCEPT ![c] = v]
         /\ wire' = frames \/ \E r \in Request : wire' = frames \cup {r}
         /\ next_session' \in Nat
         /\ failures' \subseteq [life: Nat, missed: SUBSET Holders, late: SUBSET Holders]
<1> DEFINE w == ceremony[c]
<1>1. w \in Ceremony /\ w.msg \in Messages /\ w.tried \in SUBSET SUBSET Holders
       /\ w.missed \in SUBSET Holders
  BY DEF TypeOK, Ceremony, Active
<1>2. CASE Attempt(c, w.msg, w.tried, missed, frames) /\ UNCHANGED failures
  <2>1. /\ \E v : /\ CeremonyOK(v) /\ v.msg = w.msg /\ v.parts = {}
                  /\ ceremony' = [ceremony EXCEPT ![c] = v]
        /\ \E r \in Request : wire' = frames \cup {r}
        /\ next_session' \in Nat
    <3> HIDE DEF w
    <3> QED BY <1>1, <1>2, AttemptOK
  <2> QED
    BY <1>2, <2>1 DEF TypeOK
<1>3. CASE /\ ceremony' = [ceremony EXCEPT ![c] = Idle]
           /\ failures' = failures \cup {[life |-> lives, missed |-> missed, late |-> late']}
           /\ wire' = frames
           /\ UNCHANGED next_session
  <2>1. failures' \subseteq [life: Nat, missed: SUBSET Holders, late: SUBSET Holders]
    BY <1>3 DEF TypeOK
  <2>2. \E v : /\ CeremonyOK(v) /\ v.msg \in {ceremony[c].msg, NoMessage} /\ v.parts = {}
               /\ ceremony' = [ceremony EXCEPT ![c] = v]
    <3> WITNESS Idle
    <3> QED BY <1>3, IdleOK
  <2> QED
    BY <1>3, <2>1, <2>2 DEF TypeOK
<1> HIDE DEF w
<1>4. \/ Attempt(c, w.msg, w.tried, missed, frames) /\ UNCHANGED failures
      \/ /\ ceremony' = [ceremony EXCEPT ![c] = Idle]
         /\ failures' = failures \cup {[life |-> lives, missed |-> missed, late |-> late']}
         /\ wire' = frames
         /\ UNCHANGED next_session
  BY DEF Abandon, w
<1> QED
  BY <1>2, <1>3, <1>4

\* The frames a step of a caller adds are requests, and it drops some or none.
LEMMA CallerKeepsBacked ==
  ASSUME RefInv, NEW c \in Callers, NEW v, CeremonyOK(v), v.parts \subseteq shares,
         ceremony' = [ceremony EXCEPT ![c] = v], shares' = shares,
         wire' \subseteq wire \cup Request,
         \A h \in Holders : \A i \in 1..Len(queue'[h]) :
           \E j \in 1..Len(queue[h]) : queue'[h][i] = queue[h][j]
  PROVE  ceremony' \in [Callers -> Ceremony] /\ Backed'
<1>1. ceremony' \in [Callers -> Ceremony]
  BY DEF RefInv, TypeOK, CeremonyOK
<1>2. \A d \in Callers : CeremonyOK(ceremony'[d]) /\ ceremony'[d].parts \subseteq shares'
  BY DEF RefInv, Backed, TypeOK
<1>3. \A f \in wire' : f \in Response /\ f.round = "share" => f.share \in shares'
  BY Disjoint DEF RefInv, Backed
<1>4. \A h \in Holders : \A i \in 1..Len(queue'[h]) :
        queue'[h][i].round = "share" => queue'[h][i].share \in shares'
  BY DEF RefInv, Backed
<1> QED
  BY <1>1, <1>2, <1>3, <1>4 DEF Backed, CeremonyOK

\* What a caller reads is a reply, and it leaves the rest of the channel.
LEMMA PoppedOK ==
  ASSUME RefInv, NEW c \in Callers, Answered(c), Popped(c)
  PROVE  /\ ceremony[c].awaits \in Holders
         /\ Reply(c) \in Response /\ (Reply(c).round = "share" => Reply(c).share \in shares)
         /\ queue' \in [Holders -> Seq(Response)]
         /\ \A h \in Holders : \A i \in 1..Len(queue'[h]) :
              \E j \in 1..Len(queue[h]) : queue'[h][i] = queue[h][j]
<1> DEFINE a == ceremony[c].awaits
<1>1. a \in Holders /\ queue[a] \in Seq(Response) /\ queue[a] # <<>>
  BY DEF Answered, Active, RefInv, Backed, CeremonyOK, TypeOK
<1>2. /\ Head(queue[a]) = queue[a][1] /\ 1 \in 1..Len(queue[a])
      /\ Tail(queue[a]) \in Seq(Response) /\ Len(Tail(queue[a])) = Len(queue[a]) - 1
      /\ \A i \in 1..Len(Tail(queue[a])) : Tail(queue[a])[i] = queue[a][i + 1]
  BY <1>1, HeadTailProperties
<1>3. Reply(c) = queue[a][1] /\ Reply(c) \in Response
  BY <1>1, <1>2 DEF Reply
<1>4. queue' = [queue EXCEPT ![a] = Tail(queue[a])]
  BY DEF Popped
<1>5. queue' \in [Holders -> Seq(Response)]
  BY <1>1, <1>2, <1>4 DEF RefInv, TypeOK
<1>6. ASSUME NEW h \in Holders, NEW i \in 1..Len(queue'[h])
      PROVE  \E j \in 1..Len(queue[h]) : queue'[h][i] = queue[h][j]
  <2>1. CASE h = a
    <3>1. queue'[h] = Tail(queue[a])
      BY <1>1, <1>4, <2>1 DEF RefInv, TypeOK
    <3>2. i \in Nat /\ i + 1 \in 1..Len(queue[a])
      BY <1>1, <1>2, <3>1
    <3> QED
      BY <1>2, <2>1, <3>1, <3>2
  <2>2. CASE h # a
    BY <1>4, <2>2 DEF RefInv, TypeOK
  <2> QED
    BY <2>1, <2>2
<1> QED
  BY <1>1, <1>2, <1>3, <1>5, <1>6 DEF RefInv, Backed

\* One lemma per step of a caller.
LEMMA StartKeeps == ASSUME RefInv, NEW c \in Callers, Start(c) PROVE RefInv'
<1> PICK m \in Messages : Attempt(c, m, {}, {}, wire)
  BY DEF Start
<1>0. {} \in SUBSET SUBSET Holders /\ {} \in SUBSET Holders /\ TypeOK
  BY DEF RefInv
<1>1. PICK v : /\ CeremonyOK(v) /\ v.msg = m /\ v.parts = {}
               /\ ceremony' = [ceremony EXCEPT ![c] = v]
  BY <1>0, AttemptOK
<1>2. (\E r \in Request : wire' = wire \cup {r}) /\ next_session' \in Nat
  BY <1>0, AttemptOK
<1>3. UNCHANGED <<queue, holder, delivered, misses, overdue, dups, history, lives, crashes>>
       /\ asked' = asked + 1
  BY DEF Start
<1>4. ceremony' \in [Callers -> Ceremony] /\ Backed'
  BY <1>1, <1>2, <1>3, CallerKeepsBacked DEF holder, RefInv
<1>5. wire' \subseteq Request \cup Response /\ delivered' \subseteq wire'
  BY <1>2, <1>3 DEF RefInv, TypeOK
<1>6. TypeOK'
  BY <1>2, <1>3, <1>4, <1>5 DEF RefInv, TypeOK, holder, history
<1> QED
  BY <1>4, <1>6 DEF RefInv

\* The part of the type that a failed attempt leaves to its lemma.
LEMMA AbandonKeeps ==
  ASSUME RefInv, NEW c \in Callers, Active(c), NEW missed \in SUBSET Holders,
         NEW frames \in SUBSET wire, Abandon(c, missed, frames), late' \in SUBSET Holders,
         queue' \in [Holders -> Seq(Response)], delivered' \subseteq delivered,
         \A h \in Holders : \A i \in 1..Len(queue'[h]) :
           \E j \in 1..Len(queue[h]) : queue'[h][i] = queue[h][j],
         UNCHANGED <<asked, holder, emitted, lives, crashes, dups>>,
         misses' \in Nat, overdue' \in Nat, delivered' \subseteq frames
  PROVE  RefInv'
<1>1. PICK v : /\ CeremonyOK(v) /\ v.parts = {}
               /\ ceremony' = [ceremony EXCEPT ![c] = v]
  BY AbandonOK DEF RefInv
<1>2. /\ wire' = frames \/ \E r \in Request : wire' = frames \cup {r}
      /\ next_session' \in Nat
      /\ failures' \subseteq [life: Nat, missed: SUBSET Holders, late: SUBSET Holders]
  BY AbandonOK DEF RefInv
<1>3. ceremony' \in [Callers -> Ceremony] /\ Backed'
  BY <1>1, <1>2, CallerKeepsBacked DEF holder, RefInv
<1>4. wire' \subseteq Request \cup Response /\ delivered' \subseteq wire'
  BY <1>2 DEF RefInv, TypeOK
<1>5. TypeOK'
  BY <1>2, <1>3, <1>4 DEF RefInv, TypeOK, holder
<1> QED
  BY <1>3, <1>5 DEF RefInv

LEMMA TimesOutKeeps == ASSUME RefInv, NEW c \in Callers, TimesOut(c) PROVE RefInv'
<1> DEFINE h == ceremony[c].awaits  missed == ceremony[c].missed \cup {h}
<1>1. Active(c) /\ h \in Holders /\ missed \in SUBSET Holders
  BY DEF TimesOut, Active, RefInv, Backed, CeremonyOK, TypeOK, Ceremony
<1>2. late' \in SUBSET Holders /\ misses' \in Nat /\ overdue' \in Nat /\ queue' = queue
       /\ UNCHANGED <<asked, holder, emitted, lives, crashes, dups>>
  BY <1>1 DEF TimesOut, RefInv, TypeOK
<1>3. CASE Abandon(c, missed, wire \ Exchange(c)) /\ delivered' = Remembered(Exchange(c))
  <2>1. delivered' \subseteq delivered /\ delivered' \subseteq wire \ Exchange(c)
    BY <1>3 DEF Remembered, RefInv, TypeOK
  <2> HIDE DEF missed
  <2> QED
    BY <1>1, <1>2, <1>3, <2>1, AbandonKeeps DEF RefInv, TypeOK
<1>4. CASE Abandon(c, missed, wire) /\ delivered' = delivered
  <2> HIDE DEF missed
  <2> QED
    BY <1>1, <1>2, <1>4, AbandonKeeps DEF RefInv, TypeOK
<1> QED
  BY <1>3, <1>4 DEF TimesOut

LEMMA MisfitKeeps == ASSUME RefInv, NEW c \in Callers, Misfit(c) PROVE RefInv'
<1>1. Answered(c) /\ Popped(c) /\ Active(c) /\ Abandon(c, ceremony[c].missed, wire)
  BY DEF Misfit, Answered
<1>2. ceremony[c].missed \in SUBSET Holders
  BY DEF RefInv, TypeOK, Ceremony
<1>3. UNCHANGED <<asked, holder, delivered, misses, overdue, dups, emitted, lives, crashes, late>>
  BY DEF Misfit
<1> QED
  BY <1>1, <1>2, <1>3, PoppedOK, AbandonKeeps DEF RefInv, TypeOK

\* What both rounds share: the ceremony goes on from a w of the same request.
LEMMA GoingOnKeeps ==
  ASSUME RefInv, NEW c \in Callers, Answered(c), Popped(c),
         NEW w \in Ceremony, w.msg \in Messages, w.signer_set \in Combinations,
         w.parts \subseteq shares, NEW unheard \in SUBSET Holders, GoOn(c, w, unheard, wire),
         UNCHANGED <<next_session, asked, holder, delivered, misses, overdue, dups, history, lives, crashes>>
  PROVE  RefInv' /\ \E v : v.msg = w.msg /\ ceremony' = [ceremony EXCEPT ![c] = v]
<1>1. PICK v : /\ CeremonyOK(v) /\ v.msg = w.msg /\ v.parts = w.parts
               /\ ceremony' = [ceremony EXCEPT ![c] = v]
               /\ \E r \in Request : wire' = wire \cup {r}
  BY GoOnOK DEF RefInv
<1>2. ceremony' \in [Callers -> Ceremony] /\ Backed'
  BY <1>1, PoppedOK, CallerKeepsBacked DEF holder
<1>3. queue' \in [Holders -> Seq(Response)]
  BY PoppedOK
<1>4. wire' \subseteq Request \cup Response /\ delivered' \subseteq wire'
  BY <1>1 DEF RefInv, TypeOK
<1>5. TypeOK'
  BY <1>2, <1>3, <1>4 DEF RefInv, TypeOK, holder, history
<1> QED
  BY <1>1, <1>2, <1>5 DEF RefInv

LEMMA CommittedKeeps ==
  ASSUME RefInv, NEW c \in Callers, Committed(c)
  PROVE  RefInv' /\ \E v : v.msg = ceremony[c].msg /\ ceremony' = [ceremony EXCEPT ![c] = v]
<1> DEFINE w == ceremony[c]
           new == [holder |-> w.awaits, nonce |-> Reply(c).nonce]
           noted == [w EXCEPT !.commitments = @ \cup {new}]
           unheard == {h \in w.signer_set : \A k \in noted.commitments : k.holder # h}
           next == [noted EXCEPT !.round = "package"]
<1>1. Answered(c) /\ Popped(c)
       /\ UNCHANGED <<next_session, asked, holder, delivered, misses, overdue, dups, history, lives, crashes>>
  BY DEF Committed
<1>2. w.awaits \in Holders /\ Reply(c) \in Response
  BY <1>1, PoppedOK
<1>3. w \in Ceremony /\ w.msg \in Messages /\ w.signer_set \in Combinations /\ w.parts \subseteq shares
  BY <1>1 DEF RefInv, TypeOK, Backed, CeremonyOK, Answered, Active, Ceremony
<1>4. new \in Commitment
  BY <1>2 DEF Commitment, Response
<1>5. noted \in Ceremony /\ noted.msg = w.msg /\ noted.signer_set = w.signer_set
       /\ noted.parts = w.parts
  <2> HIDE DEF w, new
  <2> QED BY <1>3, <1>4 DEF Ceremony
<1>6. next \in Ceremony /\ next.msg = w.msg /\ next.signer_set = w.signer_set
       /\ next.parts = w.parts
  <2> HIDE DEF noted
  <2> QED BY <1>5 DEF Ceremony
<1>7. unheard \in SUBSET Holders /\ w.signer_set \in SUBSET Holders
  BY <1>3, CombinationsAreHolders
<1>8. GoOn(c, noted, unheard, wire) \/ GoOn(c, next, w.signer_set, wire)
  BY DEF Committed
<1> SUFFICES RefInv' /\ \E v : v.msg = w.msg /\ ceremony' = [ceremony EXCEPT ![c] = v]
  OBVIOUS
<1> HIDE DEF noted, next, unheard, w, new
<1>9. CASE GoOn(c, noted, unheard, wire)
  BY <1>1, <1>3, <1>5, <1>7, <1>9, GoingOnKeeps
<1>10. CASE GoOn(c, next, w.signer_set, wire)
  BY <1>1, <1>3, <1>6, <1>7, <1>10, GoingOnKeeps
<1> QED
  BY <1>8, <1>9, <1>10

\* The share that is read in the second round is one that was made.
LEMMA ShareRead ==
  ASSUME RefInv, NEW c \in Callers, Answered(c), Popped(c), ceremony[c].round = "package",
         Fits(ceremony[c], Reply(c))
  PROVE  PartsOf(c) \subseteq shares /\ shares \subseteq Share
BY PoppedOK DEF Fits, PartsOf, RefInv, Backed, TypeOK

LEMMA SignedKeeps ==
  ASSUME RefInv, NEW c \in Callers, Signed(c)
  PROVE  RefInv' /\ \E v : v.msg = ceremony[c].msg /\ ceremony' = [ceremony EXCEPT ![c] = v]
<1> DEFINE w == ceremony[c]
           next == [w EXCEPT !.parts = PartsOf(c)]
<1>1. /\ Answered(c) /\ Popped(c) /\ w.round = "package" /\ Fits(w, Reply(c))
      /\ UNCHANGED <<next_session, asked, holder, delivered, misses, overdue, dups, history, lives, crashes>>
      /\ GoOn(c, next, Unsigned(c), wire)
  BY DEF Signed
<1>2. w \in Ceremony /\ w.msg \in Messages /\ w.signer_set \in Combinations
  BY <1>1 DEF RefInv, TypeOK, Backed, CeremonyOK, Answered, Active, Ceremony
<1>3. PartsOf(c) \subseteq shares /\ PartsOf(c) \subseteq Share
  BY <1>1, ShareRead
<1>4. next \in Ceremony /\ next.msg = w.msg /\ next.signer_set = w.signer_set
       /\ next.parts = PartsOf(c)
  <2> HIDE DEF w
  <2> QED BY <1>2, <1>3 DEF Ceremony
<1>5. Unsigned(c) \in SUBSET Holders
  BY <1>2, CombinationsAreHolders DEF Unsigned
<1> SUFFICES RefInv' /\ \E v : v.msg = w.msg /\ ceremony' = [ceremony EXCEPT ![c] = v]
  OBVIOUS
<1> HIDE DEF next, w
<1> QED
  BY <1>1, <1>2, <1>3, <1>4, <1>5, GoingOnKeeps

LEMMA LastShareKeeps == ASSUME RefInv, NEW c \in Callers, LastShare(c) PROVE RefInv'
<1> DEFINE w == ceremony[c]
<1>1. /\ Answered(c) /\ Popped(c) /\ Active(c)
      /\ UNCHANGED <<asked, holder, delivered, misses, overdue, dups, lives, crashes, late>>
  BY DEF LastShare, Answered
<1>2. w.missed \in SUBSET Holders /\ w.msg \in Messages
  BY <1>1 DEF RefInv, TypeOK, Ceremony, Active
<1>3. CASE /\ emitted' = emitted \cup {w.msg}
           /\ ceremony' = [ceremony EXCEPT ![c] = Idle]
           /\ UNCHANGED <<next_session, wire, failures>>
  <2>1. ceremony' \in [Callers -> Ceremony] /\ Backed'
    BY <1>1, <1>3, IdleOK, PoppedOK, CallerKeepsBacked DEF holder
  <2>2. queue' \in [Holders -> Seq(Response)]
    BY <1>1, PoppedOK
  <2>3. TypeOK'
    BY <1>1, <1>2, <1>3, <2>1, <2>2 DEF RefInv, TypeOK, holder
  <2> QED
    BY <2>1, <2>3 DEF RefInv
<1>4. CASE Abandon(c, w.missed, wire) /\ UNCHANGED emitted
  <2> HIDE DEF w
  <2> QED
    BY <1>1, <1>2, <1>4, PoppedOK, AbandonKeeps DEF RefInv, TypeOK
<1> QED
  BY <1>3, <1>4 DEF LastShare

\* What is delivered leaves the relay or stays as a copy, and the replies join it.
LEMMA DeliverOK ==
  ASSUME TypeOK, NEW f \in wire \ delivered, NEW replies \in SUBSET Response, Deliver(f, replies),
         \A r \in replies : r.round = "share" => r.share \in shares', shares \subseteq shares',
         \A r \in wire : r \in Response /\ r.round = "share" => r.share \in shares
  PROVE  /\ wire' \subseteq Request \cup Response /\ delivered' \subseteq wire'
         /\ misses' \in Nat /\ overdue' \in Nat /\ dups' \in Nat
         /\ \A r \in wire' : r \in Response /\ r.round = "share" => r.share \in shares'
<1>1. wire' \subseteq wire \cup replies
  BY DEF Deliver
<1>2. dups' \in Nat /\ misses' = misses /\ overdue' = overdue
  BY DEF Deliver, TypeOK
<1>3. delivered' \subseteq wire'
  BY DEF Deliver, TypeOK
<1> QED
  BY <1>1, <1>2, <1>3 DEF TypeOK

LEMMA RouteKeeps == ASSUME RefInv, NEW f \in wire, Route(f) PROVE RefInv'
<1> DEFINE h == f.from
<1>1. f \in wire \ delivered /\ f.to = coordinator_id /\ Deliver(f, {})
       /\ queue' = [queue EXCEPT ![h] = Append(@, f)]
       /\ UNCHANGED <<next_session, ceremony, asked, holder, history, lives, crashes>>
  BY DEF Route, Replies
<1>2. f \in Response /\ h \in Holders /\ (f.round = "share" => f.share \in shares)
  <2>1. f \notin Request
    BY <1>1, CosignAssumption DEF Request
  <2> QED
    BY <1>1, <2>1 DEF RefInv, TypeOK, Backed, Response
<1>3. /\ wire' \subseteq Request \cup Response /\ delivered' \subseteq wire'
      /\ misses' \in Nat /\ overdue' \in Nat /\ dups' \in Nat
      /\ \A r \in wire' : r \in Response /\ r.round = "share" => r.share \in shares'
  BY <1>1, DeliverOK DEF RefInv, Backed, holder
<1>4. /\ Append(queue[h], f) \in Seq(Response) /\ Len(Append(queue[h], f)) = Len(queue[h]) + 1
      /\ Append(queue[h], f)[Len(queue[h]) + 1] = f
      /\ \A i \in 1..Len(queue[h]) : Append(queue[h], f)[i] = queue[h][i]
      /\ Len(queue[h]) \in Nat
  BY <1>2, AppendProperties DEF RefInv, TypeOK
<1>5. queue' \in [Holders -> Seq(Response)]
  BY <1>1, <1>2, <1>4 DEF RefInv, TypeOK
<1>6. ASSUME NEW g \in Holders, NEW i \in 1..Len(queue'[g]), queue'[g][i].round = "share"
      PROVE  queue'[g][i].share \in shares'
  <2>1. CASE g = h
    <3>1. queue'[g] = Append(queue[h], f)
      BY <1>1, <1>2, <2>1 DEF RefInv, TypeOK
    <3>2. i \in 1..Len(queue[h]) \/ i = Len(queue[h]) + 1
      BY <1>4, <3>1
    <3>3. shares' = shares
      BY <1>1 DEF holder
    <3> QED
      BY <1>2, <1>4, <1>6, <2>1, <3>1, <3>2, <3>3 DEF RefInv, Backed
  <2>2. CASE g # h
    <3>1. queue'[g] = queue[g] /\ shares' = shares
      BY <1>1, <2>2 DEF RefInv, TypeOK, holder
    <3> QED
      BY <1>6, <3>1 DEF RefInv, Backed
  <2> QED
    BY <2>1, <2>2
<1>7. TypeOK'
  BY <1>1, <1>3, <1>5 DEF RefInv, TypeOK, holder, history
<1>8. Backed'
  BY <1>1, <1>3, <1>6 DEF RefInv, Backed, holder, CeremonyOK
<1> QED
  BY <1>7, <1>8 DEF RefInv

\* The holders leave the coordinator's side alone and only add shares.
LEMMA HolderKeeps ==
  ASSUME RefInv, NEW h \in Holders, NEW f \in Requests(h), NEW replies \in SUBSET Response,
         Deliver(f, replies), UNCHANGED <<coordinator, history, lives, crashes>>,
         nonces' \subseteq [holder: Holders, session: Nat, nonce: Nat],
         guard' \in [Holders -> SUBSET [session: Nat, round: {"commit", "package"}, life: Nat]],
         made' \in [Holders -> Nat], shares' \subseteq Share, shares \subseteq shares',
         \A r \in replies : r.round = "share" => r.share \in shares'
  PROVE  RefInv'
<1>1. /\ wire' \subseteq Request \cup Response /\ delivered' \subseteq wire'
      /\ misses' \in Nat /\ overdue' \in Nat /\ dups' \in Nat
      /\ \A r \in wire' : r \in Response /\ r.round = "share" => r.share \in shares'
  BY DeliverOK DEF RefInv, Backed, Requests
<1>2. TypeOK'
  BY <1>1 DEF RefInv, TypeOK, coordinator, history
<1>3. Backed'
  BY <1>1 DEF RefInv, Backed, coordinator, CeremonyOK
<1> QED
  BY <1>2, <1>3 DEF RefInv

LEMMA RequestReceived ==
  ASSUME TypeOK, NEW h \in Holders, NEW f \in Requests(h) PROVE f \in Request /\ f.to = h
BY CosignAssumption DEF TypeOK, Requests, Response, coordinator_id

LEMMA AdmitOK ==
  ASSUME TypeOK, NEW h \in Holders, NEW f \in Requests(h), admit(h, f)
  PROVE  guard' \in [Holders -> SUBSET [session: Nat, round: {"commit", "package"}, life: Nat]]
<1>1. Key(f) \in [session: Nat, round: {"commit", "package"}, life: Nat]
  BY RequestReceived DEF Key, Request
<1> QED
  BY <1>1 DEF admit, TypeOK

LEMMA AnswerOK ==
  ASSUME TypeOK, NEW h \in Holders, NEW f \in Requests(h), NEW nonce \in Nat,
         NEW round \in {"commitment", "share", "refusal"}, NEW share \in Share \cup {NoShare}
  PROVE  /\ Answer(h, f, round, nonce, share) \in Response
         /\ Answer(h, f, round, nonce, share).round = round
         /\ Answer(h, f, round, nonce, share).share = share
BY RequestReceived DEF Answer, Response, Request

LEMMA DroppedKeeps ==
  ASSUME RefInv, NEW h \in Holders, NEW f \in Requests(h), Dropped(h, f) PROVE RefInv'
<1>1. Deliver(f, {}) /\ UNCHANGED <<coordinator, holder, history, lives, crashes>>
  BY DEF Dropped
<1>2. UNCHANGED <<nonces, guard, made, shares>>
  BY <1>1 DEF holder
<1>3. {} \in SUBSET Response /\ \A r \in {} : r.round = "share" => r.share \in shares'
  OBVIOUS
<1>4. /\ nonces' \subseteq [holder: Holders, session: Nat, nonce: Nat]
      /\ guard' \in [Holders -> SUBSET [session: Nat, round: {"commit", "package"}, life: Nat]]
      /\ made' \in [Holders -> Nat] /\ shares' \subseteq Share /\ shares \subseteq shares'
  BY <1>2 DEF RefInv, TypeOK
<1> QED
  BY <1>1, <1>3, <1>4, HolderKeeps

LEMMA CommitKeeps ==
  ASSUME RefInv, NEW h \in Holders, NEW f \in Requests(h), handle_commit(h, f) PROVE RefInv'
<1> DEFINE n == made[h] + 1
           granted == Answer(h, f, "commitment", n, NoShare)
<1>1. TypeOK /\ admit(h, f) /\ UNCHANGED <<coordinator, history, lives, crashes>> /\ shares' = shares
  BY DEF handle_commit, RefInv
<1>2. /\ guard' \in [Holders -> SUBSET [session: Nat, round: {"commit", "package"}, life: Nat]]
      /\ shares' \subseteq Share /\ shares \subseteq shares'
  BY <1>1, AdmitOK DEF TypeOK
<1>3. n \in Nat /\ f.session \in Nat
  BY <1>1, RequestReceived DEF TypeOK, Request
<1>4. /\ Refusal(h, f) \in Response /\ Refusal(h, f).round = "refusal"
      /\ granted \in Response /\ granted.round = "commitment"
  BY <1>1, <1>3, AnswerOK DEF Refusal
<1>5. CASE Deliver(f, {Refusal(h, f)}) /\ UNCHANGED <<nonces, made>>
  <2>1. /\ nonces' \subseteq [holder: Holders, session: Nat, nonce: Nat]
        /\ made' \in [Holders -> Nat]
    BY <1>1, <1>5 DEF TypeOK
  <2>2. {Refusal(h, f)} \in SUBSET Response
        /\ \A r \in {Refusal(h, f)} : r.round = "share" => r.share \in shares'
    BY <1>4
  <2> QED
    BY <1>1, <1>2, <1>5, <2>1, <2>2, HolderKeeps
<1>6. CASE /\ made' = [made EXCEPT ![h] = n]
           /\ nonces' = nonces \cup {[holder |-> h, session |-> f.session, nonce |-> n]}
           /\ Deliver(f, {granted})
  <2>1. /\ nonces' \subseteq [holder: Holders, session: Nat, nonce: Nat]
        /\ made' \in [Holders -> Nat]
    BY <1>1, <1>3, <1>6 DEF TypeOK
  <2>2. {granted} \in SUBSET Response /\ \A r \in {granted} : r.round = "share" => r.share \in shares'
    BY <1>4
  <2> HIDE DEF granted, n
  <2> QED
    BY <1>1, <1>2, <1>6, <2>1, <2>2, HolderKeeps
<1> QED
  BY <1>5, <1>6 DEF handle_commit

LEMMA SignKeeps ==
  ASSUME RefInv, NEW h \in Holders, NEW f \in Requests(h), handle_sign(h, f) PROVE RefInv'
<1>1. TypeOK /\ admit(h, f) /\ UNCHANGED <<coordinator, history, lives, crashes>> /\ made' = made
       /\ nonces' \subseteq nonces
  BY DEF handle_sign, RefInv, Kept
<1>2. /\ guard' \in [Holders -> SUBSET [session: Nat, round: {"commit", "package"}, life: Nat]]
      /\ nonces' \subseteq [holder: Holders, session: Nat, nonce: Nat]
      /\ made' \in [Holders -> Nat]
  BY <1>1, AdmitOK DEF TypeOK
<1>3. CASE Deliver(f, {Refusal(h, f)}) /\ UNCHANGED shares
  <2>1. Refusal(h, f) \in Response /\ Refusal(h, f).round = "refusal"
    BY <1>1, AnswerOK DEF Refusal
  <2>2. {Refusal(h, f)} \in SUBSET Response
        /\ \A r \in {Refusal(h, f)} : r.round = "share" => r.share \in shares'
    BY <2>1
  <2>3. shares' \subseteq Share /\ shares \subseteq shares'
    BY <1>1, <1>3 DEF TypeOK
  <2> QED
    BY <1>1, <1>2, <1>3, <2>2, <2>3, HolderKeeps
<1>4. ASSUME NEW n \in NonceOf(h, f.session), NEW share,
             share = [holder |-> h, nonce |-> n.nonce, package |-> f.package],
             shares' = shares \cup {share}, Deliver(f, {Answer(h, f, "share", 0, share)})
      PROVE  RefInv'
  <2>1. share \in Share
    BY <1>1, <1>4, RequestReceived DEF NonceOf, TypeOK, Share, Request
  <2>2. Answer(h, f, "share", 0, share) \in Response
        /\ Answer(h, f, "share", 0, share).share = share
    BY <1>1, <2>1, AnswerOK
  <2>3. {Answer(h, f, "share", 0, share)} \in SUBSET Response
        /\ \A r \in {Answer(h, f, "share", 0, share)} : r.round = "share" => r.share \in shares'
    BY <1>4, <2>2
  <2>4. shares' \subseteq Share /\ shares \subseteq shares'
    BY <1>1, <1>4, <2>1 DEF TypeOK
  <2> QED
    BY <1>1, <1>2, <1>4, <2>3, <2>4, HolderKeeps
<1> QED
  BY <1>3, <1>4 DEF handle_sign

LEMMA ExpireKeeps == ASSUME RefInv, NEW h \in Holders, Expire(h) PROVE RefInv'
<1>1. /\ guard' \in [Holders -> SUBSET [session: Nat, round: {"commit", "package"}, life: Nat]]
      /\ wire' \subseteq wire /\ delivered' \subseteq wire'
  BY DEF Expire, Remembered, RefInv, TypeOK
<1>2. UNCHANGED <<coordinator, nonces, made, shares, misses, overdue, dups, history, lives, crashes>>
  BY DEF Expire
<1>3. TypeOK'
  BY <1>1, <1>2 DEF RefInv, TypeOK, coordinator, history
<1>4. Backed'
  BY <1>1, <1>2 DEF RefInv, Backed, coordinator, CeremonyOK
<1> QED
  BY <1>3, <1>4 DEF RefInv

LEMMA HolderRestartKeeps == ASSUME RefInv, NEW h \in Holders, HolderRestart(h) PROVE RefInv'
<1>1. /\ nonces' \subseteq nonces /\ delivered' \subseteq delivered /\ crashes' = crashes + 1
      /\ late' = late \cup {h}
      /\ UNCHANGED <<next_session, queue, asked, made, shares, wire, misses, overdue, dups,
                     emitted, failures, lives>>
  BY DEF HolderRestart
<1>2. guard' \in [Holders -> SUBSET [session: Nat, round: {"commit", "package"}, life: Nat]]
  BY DEF HolderRestart, RefInv, TypeOK
<1>3. \A c \in Callers : ceremony'[c] \in Ceremony /\ CeremonyOK(ceremony'[c]) /\ ceremony'[c].parts \subseteq shares
  <2> TAKE c \in Callers
  <2> DEFINE w == ceremony[c]
             v == [w EXCEPT !.missed = @ \cup {h}]
  <2>1. ceremony'[c] = v \/ ceremony'[c] = Idle
    BY DEF HolderRestart
  <2>2. w \in Ceremony /\ CeremonyOK(w) /\ w.parts \subseteq shares
    BY DEF RefInv, TypeOK, Backed
  <2>3. v \in Ceremony /\ v.msg = w.msg /\ v.signer_set = w.signer_set /\ v.awaits = w.awaits
         /\ v.parts = w.parts
    <3> HIDE DEF w
    <3> QED BY <2>2 DEF Ceremony
  <2>4. CeremonyOK(v)
    BY <2>2, <2>3 DEF CeremonyOK
  <2> HIDE DEF v, w
  <2> QED
    BY <2>1, <2>2, <2>3, <2>4, IdleOK DEF CeremonyOK
<1>4. ceremony' \in [Callers -> Ceremony]
  BY <1>3 DEF HolderRestart
<1>5. TypeOK'
  BY <1>1, <1>2, <1>4 DEF RefInv, TypeOK
<1>6. Backed'
  BY <1>1, <1>3 DEF RefInv, Backed, CeremonyOK
<1> QED
  BY <1>5, <1>6 DEF RefInv

LEMMA RestartKeeps == ASSUME RefInv, Restart PROVE RefInv'
<1>1. /\ ceremony' = [c \in Callers |-> Idle] /\ queue' = [h \in Holders |-> <<>>]
      /\ delivered' \subseteq delivered /\ late' = {} /\ next_session' = 0 /\ lives' = lives + 1
      /\ UNCHANGED <<asked, holder, wire, misses, overdue, dups, emitted, failures, crashes>>
  BY DEF Restart
<1>2. ceremony' \in [Callers -> Ceremony] /\ queue' \in [Holders -> Seq(Response)]
  BY <1>1, IdleOK DEF CeremonyOK
<1>3. TypeOK'
  BY <1>1, <1>2 DEF RefInv, TypeOK, holder
<1>4. Backed'
  BY <1>1, IdleOK DEF RefInv, Backed, holder, CeremonyOK
<1> QED
  BY <1>3, <1>4 DEF RefInv

LEMMA RefInit == Init => RefInv
<1> SUFFICES ASSUME Init PROVE RefInv
  OBVIOUS
<1>1. ceremony \in [Callers -> Ceremony] /\ queue \in [Holders -> Seq(Response)]
  BY IdleOK DEF Init, CeremonyOK
<1>2. TypeOK
  BY <1>1 DEF Init, TypeOK
<1>3. Backed
  BY IdleOK DEF Init, Backed, CeremonyOK
<1> QED
  BY <1>2, <1>3 DEF RefInv

LEMMA RefStep == RefInv /\ [Next]_vars => RefInv'
<1> SUFFICES ASSUME RefInv, [Next]_vars PROVE RefInv'
  OBVIOUS
<1>1. CASE \E c \in Callers : \/ Start(c) \/ TimesOut(c) \/ Misfit(c)
                              \/ Committed(c) \/ Signed(c) \/ LastShare(c)
  BY <1>1, StartKeeps, TimesOutKeeps, MisfitKeeps, CommittedKeeps, SignedKeeps, LastShareKeeps
<1>2. CASE \E f \in wire : Route(f)
  BY <1>2, RouteKeeps
<1>3. CASE \E h \in Holders : Expire(h) \/ HolderRestart(h)
  BY <1>3, ExpireKeeps, HolderRestartKeeps
<1>4. CASE \E h \in Holders : \E f \in Requests(h) :
             Dropped(h, f) \/ handle_commit(h, f) \/ handle_sign(h, f)
  BY <1>4, DroppedKeeps, CommitKeeps, SignKeeps
<1>5. CASE Restart
  BY <1>5, RestartKeeps
<1>6. CASE UNCHANGED vars
  BY <1>6 DEF vars, coordinator, holder, relay, history, RefInv, TypeOK, Backed, CeremonyOK
<1> QED
  BY <1>1, <1>2, <1>3, <1>4, <1>5, <1>6 DEF Next

\* Whatever the relay does, every variable keeps to its type: what a holder reads is a request,
\* what the coordinator reads a reply (relay_transport.rs, remote_holder.rs).
THEOREM CosignTypes == Spec => []TypeOK
<1>1. RefInv => TypeOK
  BY DEF RefInv
<1> QED
  BY <1>1, RefInit, RefStep, PTL DEF Spec

-----------------------------------------------------------------------------
(* The steps                                                                 *)

msgs == [c \in Callers |-> ceremony[c].msg]
endorsements == {<<x.holder, x.package.msg>> : x \in shares}

\* The endorsements are of holders, for messages.
LEMMA MsgsAfter ==
  ASSUME RefInv, NEW c \in Callers, NEW v, ceremony' = [ceremony EXCEPT ![c] = v]
  PROVE  msgs' = [msgs EXCEPT ![c] = v.msg]
BY DEF msgs, RefInv, TypeOK

\* A request that goes on or is given up, with nothing else that the oracle sees.
LEMMA GivesUpOrGoesOn ==
  ASSUME RefInv, NEW c \in Callers, NEW v, ceremony' = [ceremony EXCEPT ![c] = v],
         v.msg \in {ceremony[c].msg, NoMessage}, UNCHANGED <<shares, emitted>>
  PROVE  [Oracle!Next]_Oracle!vars
<1>1. endorsements' = endorsements /\ emitted' = emitted
  BY DEF endorsements
<1>2. msgs' = [msgs EXCEPT ![c] = v.msg]
  BY MsgsAfter
<1>3. CASE v.msg = ceremony[c].msg
  <2>1. msgs' = msgs
    BY <1>2, <1>3 DEF msgs
  <2> QED
    BY <1>1, <2>1 DEF Oracle!vars, msgs, endorsements
<1>4. CASE v.msg = NoMessage
  <2>1. msgs' = [d \in Callers |-> IF d \in {c} THEN NoMessage ELSE msgs[d]]
    BY <1>2, <1>4 DEF msgs
  <2>2. Oracle!GiveUp({c})
    BY <1>1, <2>1 DEF Oracle!GiveUp, msgs, endorsements
  <2> QED
    BY <2>2 DEF Oracle!Next
<1> QED
  BY <1>3, <1>4

LEMMA StartAsks == ASSUME RefInv, NEW c \in Callers, Start(c) PROVE [Oracle!Next]_Oracle!vars
<1> PICK m \in Messages : Attempt(c, m, {}, {}, wire)
  BY DEF Start
<1>0. {} \in SUBSET SUBSET Holders /\ {} \in SUBSET Holders /\ TypeOK
  BY DEF RefInv
<1>1. PICK v : v.msg = m /\ ceremony' = [ceremony EXCEPT ![c] = v]
  BY <1>0, AttemptOK
<1>2. msgs' = [msgs EXCEPT ![c] = m] /\ msgs[c] = NoMessage
  BY <1>1, MsgsAfter DEF Start, Active, msgs
<1>3. endorsements' = endorsements /\ emitted' = emitted
  BY DEF Start, holder, history, endorsements
<1>4. Oracle!Ask(c, m)
  BY <1>2, <1>3 DEF Oracle!Ask, msgs, endorsements
<1> QED
  BY <1>4 DEF Oracle!Next

LEMMA TimesOutGivesUp == ASSUME RefInv, NEW c \in Callers, TimesOut(c) PROVE [Oracle!Next]_Oracle!vars
<1> DEFINE h == ceremony[c].awaits  missed == ceremony[c].missed \cup {h}
<1>1. Active(c) /\ h \in Holders /\ missed \in SUBSET Holders /\ TypeOK
  BY DEF TimesOut, Active, RefInv, Backed, CeremonyOK, TypeOK, Ceremony
<1>2. late' \in SUBSET Holders /\ UNCHANGED <<shares, emitted>>
  BY <1>1 DEF TimesOut, TypeOK, holder
<1>3. Abandon(c, missed, wire \ Exchange(c)) \/ Abandon(c, missed, wire)
  BY DEF TimesOut
<1>4. \E v : v.msg \in {ceremony[c].msg, NoMessage} /\ ceremony' = [ceremony EXCEPT ![c] = v]
  <2> HIDE DEF missed
  <2> QED BY <1>1, <1>2, <1>3, AbandonOK
<1> QED
  BY <1>2, <1>4, GivesUpOrGoesOn

LEMMA MisfitGivesUp == ASSUME RefInv, NEW c \in Callers, Misfit(c) PROVE [Oracle!Next]_Oracle!vars
<1>1. Active(c) /\ Abandon(c, ceremony[c].missed, wire) /\ UNCHANGED <<shares, emitted, late>>
  BY DEF Misfit, Answered, holder
<1>2. ceremony[c].missed \in SUBSET Holders /\ TypeOK /\ late' \in SUBSET Holders
  BY <1>1 DEF RefInv, TypeOK, Ceremony
<1>3. \E v : v.msg \in {ceremony[c].msg, NoMessage} /\ ceremony' = [ceremony EXCEPT ![c] = v]
  BY <1>1, <1>2, AbandonOK
<1> QED
  BY <1>1, <1>3, GivesUpOrGoesOn

LEMMA RoundGoesOn ==
  ASSUME RefInv, NEW c \in Callers, Committed(c) \/ Signed(c) PROVE [Oracle!Next]_Oracle!vars
<1>1. UNCHANGED <<shares, emitted>>
  BY DEF Committed, Signed, holder, history
<1> QED
  BY <1>1, CommittedKeeps, SignedKeeps, GivesUpOrGoesOn

\* The signature is emitted: every holder of the subset has endorsed the message.
LEMMA LastShareSigns == ASSUME RefInv, NEW c \in Callers, LastShare(c) PROVE [Oracle!Next]_Oracle!vars
<1> DEFINE w == ceremony[c]
<1>1. /\ Answered(c) /\ Popped(c) /\ Active(c) /\ w.round = "package" /\ Fits(w, Reply(c))
      /\ UNCHANGED <<shares, late>>
  BY DEF LastShare, Answered, holder
<1>2. w.missed \in SUBSET Holders /\ TypeOK /\ late' \in SUBSET Holders /\ w.msg # NoMessage
  BY <1>1 DEF RefInv, TypeOK, Ceremony, Active
<1>3. CASE Abandon(c, w.missed, wire) /\ UNCHANGED emitted
  <2>1. Active(c) /\ Abandon(c, ceremony[c].missed, wire) /\ ceremony[c].missed \in SUBSET Holders
    BY <1>1, <1>2, <1>3
  <2>2. \E v : v.msg \in {ceremony[c].msg, NoMessage} /\ ceremony' = [ceremony EXCEPT ![c] = v]
    BY <1>2, <2>1, AbandonOK
  <2> QED
    BY <1>1, <1>3, <2>2, GivesUpOrGoesOn
<1>4. CASE /\ Aggregates(w, PartsOf(c))
           /\ emitted' = emitted \cup {w.msg}
           /\ ceremony' = [ceremony EXCEPT ![c] = Idle]
  <2> DEFINE signers == {h \in Holders : <<h, w.msg>> \in endorsements}
  <2>1. PartsOf(c) \subseteq shares
    BY <1>1, ShareRead
  <2>2. w.signer_set \in Combinations
    BY <1>1 DEF RefInv, Backed, CeremonyOK, Active
  <2>3. w.signer_set \subseteq signers
    <3> SUFFICES ASSUME NEW h \in w.signer_set PROVE h \in Holders /\ <<h, w.msg>> \in endorsements
      OBVIOUS
    <3>1. PICK x \in PartsOf(c) : x.holder = h /\ x.package = PackageOf(w)
      BY <1>4 DEF Aggregates
    <3>2. x.package.msg = w.msg
      BY <3>1 DEF PackageOf
    <3>3. <<x.holder, x.package.msg>> \in endorsements
      BY <2>1 DEF endorsements
    <3> QED
      BY <2>2, <3>1, <3>2, <3>3, CombinationsAreHolders
  <2>4. Cardinality(signers) >= Threshold
    <3>1. IsFiniteSet(signers)
      BY CosignAssumption, FS_Subset
    <3>2. Cardinality(w.signer_set) <= Cardinality(signers) /\ Cardinality(signers) \in Nat
      BY <2>3, <3>1, FS_Subset, FS_CardinalityType
    <3>3. Cardinality(w.signer_set) = Threshold /\ Threshold \in Nat
      BY <2>2, CosignAssumption DEF Combinations
    <3> QED
      BY <3>2, <3>3
  <2>5. msgs' = [msgs EXCEPT ![c] = NoMessage] /\ msgs[c] = w.msg
    BY <1>4, IdleOK, MsgsAfter DEF msgs
  <2>6. endorsements' = endorsements
    BY <1>1 DEF endorsements
  <2>7. Oracle!Sign(c)
    <3>1. Oracle!Endorsers(msgs[c]) = signers
      BY <2>5 DEF Oracle!Endorsers, endorsements
    <3>2. emitted' = emitted \cup {msgs[c]} /\ msgs[c] # NoMessage
      BY <1>2, <1>4, <2>5
    <3>3. Cardinality(Oracle!Endorsers(msgs[c])) >= Threshold
      BY <2>4, <3>1
    <3>4. /\ msgs[c] # NoMessage /\ Cardinality(Oracle!Endorsers(msgs[c])) >= Threshold
          /\ emitted' = emitted \cup {msgs[c]} /\ msgs' = [msgs EXCEPT ![c] = NoMessage]
          /\ endorsements' = endorsements
      BY <2>5, <2>6, <3>2, <3>3
    <3>5. Oracle!Cardinality(Oracle!Endorsers(msgs[c])) = Cardinality(Oracle!Endorsers(msgs[c]))
      BY DEF Oracle!Cardinality, Cardinality
    <3> QED
      BY <3>4, <3>5 DEF Oracle!Sign, msgs, endorsements
  <2> QED
    BY <2>7 DEF Oracle!Next
<1> QED
  BY <1>3, <1>4 DEF LastShare

\* A share is the holder's endorsement of the message in its package.
LEMMA SignEndorses ==
  ASSUME RefInv, NEW h \in Holders, NEW f \in Requests(h), handle_sign(h, f)
  PROVE  [Oracle!Next]_Oracle!vars
<1>1. msgs' = msgs /\ emitted' = emitted
  BY DEF handle_sign, coordinator, history, msgs
<1>2. CASE UNCHANGED shares
  BY <1>1, <1>2 DEF Oracle!vars, msgs
<1>3. ASSUME NEW share, share.holder = h, share.package = f.package, shares' = shares \cup {share}
      PROVE  [Oracle!Next]_Oracle!vars
  <2>1. f.package.msg \in Messages
    BY RequestReceived DEF RefInv, Request, Package
  <2>2. endorsements' = endorsements \cup {<<h, f.package.msg>>}
    BY <1>3 DEF endorsements
  <2>3. Oracle!Endorse(h, f.package.msg)
    BY <1>1, <2>2 DEF Oracle!Endorse, msgs, endorsements
  <2> QED
    BY <2>1, <2>3 DEF Oracle!Next
<1> QED
  BY <1>2, <1>3 DEF handle_sign

LEMMA RestartGivesUp == ASSUME RefInv, Restart PROVE [Oracle!Next]_Oracle!vars
<1>1. msgs' = [c \in Callers |-> IF c \in Callers THEN NoMessage ELSE msgs[c]]
  BY IdleOK DEF Restart, msgs
<1>2. endorsements' = endorsements /\ emitted' = emitted
  BY DEF Restart, holder, endorsements
<1>3. Oracle!GiveUp(Callers)
  BY <1>1, <1>2 DEF Oracle!GiveUp, msgs, endorsements
<1> QED
  BY <1>3 DEF Oracle!Next

LEMMA HolderRestartStutters ==
  ASSUME RefInv, NEW h \in Holders, HolderRestart(h) PROVE [Oracle!Next]_Oracle!vars
<1>1. \A c \in Callers : ceremony'[c].msg = ceremony[c].msg
  <2> TAKE c \in Callers
  <2>1. ceremony[c] \in Ceremony
    BY DEF RefInv, TypeOK
  <2>2. CASE Active(c)
    <3> DEFINE w == ceremony[c]  v == [w EXCEPT !.missed = @ \cup {h}]
    <3>1. ceremony'[c] = v
      BY <2>2 DEF HolderRestart
    <3>2. v.msg = w.msg
      <4> HIDE DEF w
      <4>1. w \in Ceremony
        BY <2>1 DEF w
      <4> QED BY <4>1 DEF Ceremony
    <3> QED
      BY <3>1, <3>2
  <2>3. CASE ~Active(c)
    BY <2>3, IdleOK DEF HolderRestart, Active
  <2> QED
    BY <2>2, <2>3
<1>2. msgs' = msgs
  BY <1>1 DEF msgs
<1>3. UNCHANGED <<shares, emitted>>
  BY DEF HolderRestart
<1> QED
  BY <1>2, <1>3 DEF Oracle!vars, msgs

LEMMA OracleInit == Init => Oracle!Init
BY IdleOK DEF Init, Oracle!Init

LEMMA OracleStep == RefInv /\ [Next]_vars => [Oracle!Next]_Oracle!vars
<1> SUFFICES ASSUME RefInv, [Next]_vars PROVE [Oracle!Next]_Oracle!vars
  OBVIOUS
<1>1. CASE UNCHANGED <<ceremony, shares, emitted>>
  BY <1>1 DEF Oracle!vars
<1>2. CASE \E c \in Callers : \/ Start(c) \/ TimesOut(c) \/ Misfit(c)
                              \/ Committed(c) \/ Signed(c) \/ LastShare(c)
  BY <1>2, StartAsks, TimesOutGivesUp, MisfitGivesUp, RoundGoesOn, LastShareSigns
<1>3. CASE \E f \in wire : Route(f)
  BY <1>1, <1>3 DEF Route, holder, history
<1>4. CASE \E h \in Holders : Expire(h)
  BY <1>1, <1>4 DEF Expire, coordinator, history
<1>5. CASE \E h \in Holders : HolderRestart(h)
  BY <1>5, HolderRestartStutters
<1>6. ASSUME NEW h \in Holders, NEW f \in Requests(h), Dropped(h, f) \/ handle_commit(h, f)
      PROVE  [Oracle!Next]_Oracle!vars
  BY <1>1, <1>6 DEF Dropped, handle_commit, coordinator, holder, history
<1>7. CASE \E h \in Holders : \E f \in Requests(h) : handle_sign(h, f)
  BY <1>7, SignEndorses
<1>8. CASE Restart
  BY <1>8, RestartGivesUp
<1>9. CASE UNCHANGED vars
  BY <1>1, <1>9 DEF vars, coordinator, holder, history
<1> QED
  BY <1>2, <1>3, <1>4, <1>5, <1>6, <1>7, <1>8, <1>9 DEF Next

\* QuorumSigner over the relay implements the oracle: no signature without the request and the
\* endorsements of a threshold, for any number of holders, callers, faults and lives.
THEOREM CosignImplementsOracle == Spec => KeepsThePromise
<1>1. Spec => Oracle!Init /\ [][Oracle!Next]_Oracle!vars
  BY RefInit, RefStep, OracleInit, OracleStep, PTL DEF Spec
<1> QED
  BY <1>1 DEF KeepsThePromise, Oracle!Spec

-----------------------------------------------------------------------------
(* A lone caller, in the first life of the coordinator.  A holder that was     *)
(* never late has one frame on its way at most, and none when it is not        *)
(* awaited; so no subset of such holders meets a reply that does not fit.      *)

Lone == \E c \in Callers : \A d \in Callers : d = c

\* The frames still to come to a holder or from it.
Open(h) == {f \in wire \ delivered : f.to = h \/ (f.to = coordinator_id /\ f.from = h)}

Quiet(h) == queue[h] = <<>> /\ Open(h) = {}
OneFrame(h) == \/ queue[h] = <<>> /\ \A f, g \in Open(h) : f = g
               \/ Len(queue[h]) = 1 /\ Open(h) = {}

\* Whoever was never late is quiet unless the caller waits for it.
Accounted(w, h) == OneFrame(h) /\ ((w.msg # NoMessage /\ w.awaits = h) \/ Quiet(h))

Sessions ==
  /\ \A f \in wire : f.to # coordinator_id => f.life = 1 /\ f.session < next_session
  /\ \A h \in Holders : \A e \in guard[h] : e.life = 1 /\ e.session < next_session
  /\ \A n \in nonces : n.session < next_session

Heard(w) == {k.holder : k \in w.commitments}
Given(w) == {x.holder : x \in w.parts}

\* Where in its two rounds a ceremony is.
Rounds(w) ==
  /\ w.session < next_session /\ w.signer_set \in Combinations /\ w.awaits \in w.signer_set
  /\ Heard(w) \subseteq w.signer_set
  /\ w.round = "commit" => w.parts = {} /\ w.awaits \notin Heard(w)
  /\ w.round = "package" => Heard(w) = w.signer_set /\ w.awaits \notin Given(w)

\* The subsets that failed each have a holder that was late.
TriedInVain(w) == \A P \in w.tried : P = w.signer_set \/ P \cap late # {}

\* No request of the round has been sent to the holder in this session.
Unasked(h, s, r) ==
  /\ \A f \in wire : f.to = h /\ f.session = s => f.round # r
  /\ \A e \in guard[h] : e.session = s => e.round # r

Keeps(w, h, n) == NonceOf(h, w.session) = {[holder |-> h, session |-> w.session, nonce |-> n]}
KeepsIts(w, h) == \E n \in Nat : Keeps(w, h, n) /\ \A k \in w.commitments : k.holder = h => k.nonce = n

ShareFits(w, x) == x.package = PackageOf(w) /\ [holder |-> x.holder, nonce |-> x.nonce] \in w.commitments

\* The reply is the one the caller waits for.
ReplyFits(w, h, r) ==
  /\ Fits(w, r)
  /\ w.round = "commit" => Keeps(w, h, r.nonce)
  /\ w.round = "package" => r.share.holder = h /\ ShareFits(w, r.share)

\* The request is the one the caller sent, and the holder will answer it.
RequestFits(w, h, f) ==
  /\ f = FrameOf(w) /\ ~Seen(h, f)
  /\ w.round = "commit" => NonceOf(h, w.session) = {}
  /\ w.round = "package" => KeepsIts(w, h)

HolderReady(w, h) ==
  /\ h = w.awaits =>
       /\ \A f \in Open(h) : IF f.to = coordinator_id THEN ReplyFits(w, h, f) ELSE RequestFits(w, h, f)
       /\ \A i \in 1..Len(queue[h]) : ReplyFits(w, h, queue[h][i])
  /\ w.round = "commit" => Unasked(h, w.session, "package")
  /\ w.round = "commit" /\ h \notin Heard(w) /\ h # w.awaits =>
       Unasked(h, w.session, "commit") /\ NonceOf(h, w.session) = {}
  /\ w.round = "commit" /\ h \in Heard(w) => KeepsIts(w, h)
  /\ w.round = "package" /\ h \notin Given(w) /\ h # w.awaits =>
       Unasked(h, w.session, "package") /\ KeepsIts(w, h)

\* A subset none of whose holders was late will sign.
WillSign(w) ==
  /\ \A x \in w.parts : ShareFits(w, x)
  /\ \A h \in w.signer_set : HolderReady(w, h)

OneLife(w) ==
  /\ \A h \in Holders \ late : Accounted(w, h)
  /\ w.msg # NoMessage => Rounds(w) /\ TriedInVain(w) /\ (w.signer_set \cap late = {} => WillSign(w))

FallbackInv ==
  /\ lives \in Nat \ {0} /\ FailureExplained
  /\ lives = 1 => Sessions /\ \A c \in Callers : OneLife(ceremony[c])

(* Steps that leave the ceremony alone.                                        *)
LEMMA DeliverOpens ==
  ASSUME NEW f, NEW replies, Deliver(f, replies)
  PROVE  /\ (wire \ delivered)' \subseteq ((wire \ delivered) \ {f}) \cup replies
         /\ wire' \subseteq wire \cup replies
BY DEF Deliver

\* Nothing changes at a holder but that a frame of it may be gone.
LEMMA Elsewhere ==
  ASSUME NEW w, NEW g, Open(g)' \subseteq Open(g), queue'[g] = queue[g], guard'[g] = guard[g],
         \A s : NonceOf(g, s)' = NonceOf(g, s), lives' = lives,
         \A f \in wire' : f.to = g => f \in wire
  PROVE  /\ Accounted(w, g) => Accounted(w, g)'
         /\ HolderReady(w, g) => HolderReady(w, g)'
<1>1. Accounted(w, g) => Accounted(w, g)'
  BY DEF Accounted, Quiet, OneFrame
<1>2. \A n : Keeps(w, g, n)' <=> Keeps(w, g, n)
  BY DEF Keeps
<1>3. KeepsIts(w, g)' <=> KeepsIts(w, g)
  BY <1>2 DEF KeepsIts
<1>4. \A r : ReplyFits(w, g, r)' <=> ReplyFits(w, g, r)
  BY <1>2 DEF ReplyFits, Fits, ShareFits, PackageOf
<1>5. FrameOf(w)' = FrameOf(w)
  BY DEF FrameOf, PackageOf
<1>6. \A f : RequestFits(w, g, f)' <=> RequestFits(w, g, f)
  BY <1>3, <1>5 DEF RequestFits, Seen
<1>7. \A s, r : Unasked(g, s, r) => Unasked(g, s, r)'
  BY DEF Unasked
<1>8. Heard(w)' = Heard(w) /\ Given(w)' = Given(w)
  BY DEF Heard, Given
<1> QED
  BY <1>1, <1>3, <1>4, <1>6, <1>7, <1>8 DEF HolderReady


\* A step of one holder, or of a frame of it.
LEMMA AtOneHolder ==
  ASSUME NEW w, OneLife(w), NEW h \in Holders,
         UNCHANGED <<next_session, late, lives>>,
         \A g \in Holders \ {h} :
           /\ Open(g)' \subseteq Open(g) /\ queue'[g] = queue[g] /\ guard'[g] = guard[g]
           /\ \A s : NonceOf(g, s)' = NonceOf(g, s)
           /\ \A f \in wire' : f.to = g => f \in wire,
         h \notin late => Accounted(w, h)',
         w.msg # NoMessage /\ h \in w.signer_set /\ h \notin late /\ HolderReady(w, h) => HolderReady(w, h)'
  PROVE  OneLife(w)'
<1>1. \A g \in Holders \ late' : Accounted(w, g)'
  <2> TAKE g \in Holders \ late'
  <2>1. CASE g = h
    BY <2>1
  <2>2. CASE g # h
    BY <2>2, Elsewhere DEF OneLife
  <2> QED
    BY <2>1, <2>2
<1>2. ASSUME w.msg # NoMessage
      PROVE  Rounds(w)' /\ TriedInVain(w)'
  BY <1>2 DEF OneLife, Rounds, TriedInVain, Heard, Given, Combinations
<1>3. ASSUME w.msg # NoMessage, w.signer_set \cap late' = {}
      PROVE  WillSign(w)'
  <2>1. WillSign(w) /\ w.signer_set \in Combinations
    BY <1>3 DEF OneLife, Rounds
  <2>2. \A x \in w.parts : ShareFits(w, x)'
    BY <2>1 DEF WillSign, ShareFits, PackageOf
  <2>3. ASSUME NEW g \in w.signer_set PROVE HolderReady(w, g)'
    <3>1. g \in Holders /\ g \notin late /\ HolderReady(w, g)
      BY <1>3, <2>1, CombinationsAreHolders DEF WillSign
    <3>2. CASE g = h
      BY <1>3, <3>1, <3>2
    <3>3. CASE g # h
      BY <3>1, <3>3, Elsewhere
    <3> QED
      BY <3>2, <3>3
  <2> QED
    BY <2>2, <2>3 DEF WillSign
<1> QED
  BY <1>1, <1>2, <1>3 DEF OneLife

\* Where a frame is on its way, it is the only one, and the caller waits for it.
LEMMA OnlyFrame ==
  ASSUME NEW w, NEW h \in Holders, Accounted(w, h), NEW f \in Open(h)
  PROVE  w.msg # NoMessage /\ w.awaits = h /\ queue[h] = <<>> /\ Open(h) = {f}
BY DEF Accounted, OneFrame, Quiet

LEMMA RouteInOneLife ==
  ASSUME RefInv, NEW w, OneLife(w), Sessions, NEW f \in wire, Route(f)
  PROVE  OneLife(w)' /\ Sessions'
<1> DEFINE h == f.from
<1>1. /\ f \in wire \ delivered /\ f.to = coordinator_id /\ Deliver(f, {})
      /\ queue' = [queue EXCEPT ![h] = Append(@, f)]
      /\ UNCHANGED <<next_session, holder, late, lives>>
  BY DEF Route, Replies, history
<1>2. f \in Response /\ h \in Holders
  BY <1>1, CosignAssumption DEF RefInv, TypeOK, Request, Response
<1>3. (wire \ delivered)' \subseteq (wire \ delivered) \ {f} /\ wire' \subseteq wire
  BY <1>1, DeliverOpens
<1>4. f \in Open(h)
  BY <1>1 DEF Open
<1>5. queue'[h] = Append(queue[h], f) /\ \A g \in Holders \ {h} : queue'[g] = queue[g]
  BY <1>1, <1>2 DEF RefInv, TypeOK
<1>6. \A g \in Holders : Open(g)' \subseteq Open(g) \ {f}
  BY <1>3 DEF Open
<1>7. ASSUME h \notin late
      PROVE  /\ w.msg # NoMessage /\ w.awaits = h /\ Open(h)' = {} /\ Len(queue'[h]) = 1
             /\ queue'[h][1] = f
  <2>1. w.msg # NoMessage /\ w.awaits = h /\ queue[h] = <<>> /\ Open(h) = {f}
    BY <1>2, <1>4, <1>7, OnlyFrame DEF OneLife
  <2>2. queue'[h] = <<f>>
    BY <1>2, <1>5, <2>1
  <2> QED
    BY <1>2, <1>6, <2>1, <2>2
<1>8. h \notin late => Accounted(w, h)'
  BY <1>7 DEF Accounted, OneFrame
<1>9. ASSUME h \notin late, HolderReady(w, h)
      PROVE  HolderReady(w, h)'
  <2>1. ReplyFits(w, h, f)
    BY <1>1, <1>4, <1>7, <1>9 DEF HolderReady
  <2>2. ReplyFits(w, h, f)'
    BY <1>1, <2>1 DEF ReplyFits, Fits, ShareFits, PackageOf, Keeps, NonceOf, holder
  <2>3. KeepsIts(w, h) => KeepsIts(w, h)'
    BY <1>1 DEF KeepsIts, Keeps, NonceOf, holder
  <2>4. \A s, r : Unasked(h, s, r) => Unasked(h, s, r)'
    BY <1>1, <1>3 DEF Unasked, holder
  <2>5. \A i \in 1..Len(queue'[h]) : queue'[h][i] = f
    BY <1>7, <1>9
  <2>6. Heard(w)' = Heard(w) /\ Given(w)' = Given(w) /\ h = w.awaits /\ Open(h)' = {}
    BY <1>7, <1>9 DEF Heard, Given
  <2> HIDE DEF h
  <2> QED
    BY <1>9, <2>2, <2>3, <2>4, <2>5, <2>6 DEF HolderReady
<1>10. \A g \in Holders \ {h} : guard'[g] = guard[g] /\ (\A s : NonceOf(g, s)' = NonceOf(g, s))
  BY <1>1 DEF holder, NonceOf
<1>11. OneLife(w)'
  <2>1. \A g \in Holders \ {h} :
           /\ Open(g)' \subseteq Open(g) /\ queue'[g] = queue[g] /\ guard'[g] = guard[g]
           /\ \A s : NonceOf(g, s)' = NonceOf(g, s)
           /\ \A e \in wire' : e.to = g => e \in wire
    BY <1>3, <1>5, <1>6, <1>10
  <2> HIDE DEF h
  <2> QED
    BY <1>1, <1>2, <1>8, <1>9, <2>1, AtOneHolder
<1>12. Sessions'
  BY <1>1, <1>3 DEF Sessions, holder
<1> QED
  BY <1>11, <1>12


\* A holder takes a request: the frame is gone, and a reply of it at most is new.
LEMMA RequestTaken ==
  ASSUME RefInv, NEW h \in Holders, NEW f \in Requests(h), NEW replies, Deliver(f, replies),
         \A r \in replies : r.to = coordinator_id /\ r.from = h, \A r, s \in replies : r = s,
         UNCHANGED <<next_session, ceremony, queue, late, lives>>
  PROVE  /\ f \in Open(h) /\ f.to = h /\ f \in Request /\ h # coordinator_id
         /\ wire' \subseteq wire \cup replies
         /\ \A g \in Holders \ {h} : Open(g)' \subseteq Open(g)
         /\ \A g \in Holders : \A e \in wire' : e.to = g => e \in wire
         /\ \A w : Accounted(w, h) => /\ Accounted(w, h)' /\ w.msg # NoMessage /\ w.awaits = h
                                      /\ queue[h] = <<>> /\ Open(h) = {f} /\ Open(h)' \subseteq replies
<1>1. f \in Request /\ f.to = h /\ h # coordinator_id
  BY RequestReceived, CosignAssumption DEF RefInv
<1>2. f \in Open(h)
  BY <1>1 DEF Requests, Open
<1>3. (wire \ delivered)' \subseteq ((wire \ delivered) \ {f}) \cup replies /\ wire' \subseteq wire \cup replies
  BY DeliverOpens
<1>4. \A g \in Holders : g # coordinator_id
  BY CosignAssumption
<1>5. Open(h)' \subseteq (Open(h) \ {f}) \cup replies
  BY <1>3, <1>4 DEF Open
<1>6. ASSUME NEW w, Accounted(w, h)
      PROVE  /\ Accounted(w, h)' /\ w.msg # NoMessage /\ w.awaits = h
             /\ queue[h] = <<>> /\ Open(h) = {f} /\ Open(h)' \subseteq replies
  <2>1. w.msg # NoMessage /\ w.awaits = h /\ queue[h] = <<>> /\ Open(h) = {f}
    BY <1>2, <1>6, OnlyFrame
  <2>2. Open(h)' \subseteq replies
    BY <1>5, <2>1
  <2> QED
    BY <2>1, <2>2 DEF Accounted, OneFrame
<1>7. \A g \in Holders : \A e \in wire' : e.to = g => e \in wire
  BY <1>3, <1>4
<1>8. \A g \in Holders \ {h} : Open(g)' \subseteq Open(g)
  BY <1>3, <1>4 DEF Open
<1> QED
  BY <1>1, <1>2, <1>3, <1>6, <1>7, <1>8

LEMMA DroppedInOneLife ==
  ASSUME RefInv, NEW w, OneLife(w), Sessions, NEW h \in Holders, NEW f \in Requests(h), Dropped(h, f)
  PROVE  OneLife(w)' /\ Sessions'
<1>1. Deliver(f, {}) /\ UNCHANGED <<coordinator, holder, history, lives>>
  BY DEF Dropped
<1>2. UNCHANGED <<next_session, ceremony, queue, guard, nonces, late, lives>>
  BY <1>1 DEF coordinator, holder, history
<1>3. /\ wire' \subseteq wire
      /\ \A g \in Holders \ {h} : Open(g)' \subseteq Open(g)
      /\ \A g \in Holders : \A e \in wire' : e.to = g => e \in wire
      /\ Accounted(w, h) => Accounted(w, h)' /\ Open(h)' = {}
  BY <1>1, <1>2, RequestTaken
<1>4. \A g \in Holders : \A s : NonceOf(g, s)' = NonceOf(g, s)
  BY <1>2 DEF NonceOf
<1>5. h \notin late => Accounted(w, h)' /\ Open(h)' \subseteq Open(h)
  BY <1>3 DEF OneLife
<1>6. h \notin late /\ HolderReady(w, h) => HolderReady(w, h)'
  BY <1>2, <1>3, <1>4, <1>5, Elsewhere
<1>7. OneLife(w)'
  BY <1>2, <1>3, <1>4, <1>5, <1>6, AtOneHolder
<1>8. Sessions'
  BY <1>2, <1>3 DEF Sessions
<1> QED
  BY <1>7, <1>8

\* What a holder admits is of this life and of a session that was opened.
LEMMA AdmitInOneLife ==
  ASSUME RefInv, Sessions, NEW h \in Holders, NEW f \in Requests(h), admit(h, f)
  PROVE  /\ f.life = 1 /\ f.session < next_session
         /\ \A g \in Holders : guard'[g] = IF g = h THEN guard[h] \cup {Key(f)} ELSE guard[g]
         /\ \A g \in Holders : \A e \in guard'[g] : e.life = 1 /\ e.session < next_session
<1>1. f \in wire /\ f.to # coordinator_id
  BY RequestReceived, CosignAssumption DEF RefInv, Requests
<1>2. f.life = 1 /\ f.session < next_session
  BY <1>1 DEF Sessions
<1>3. \A g \in Holders : guard'[g] = IF g = h THEN guard[h] \cup {Key(f)} ELSE guard[g]
  BY DEF admit, RefInv, TypeOK
<1>4. Key(f).life = 1 /\ Key(f).session < next_session
  BY <1>2 DEF Key
<1> QED
  BY <1>2, <1>3, <1>4 DEF Sessions

LEMMA CommitInOneLife ==
  ASSUME RefInv, NEW w, w \in Ceremony, OneLife(w), Sessions,
         NEW h \in Holders, NEW f \in Requests(h), handle_commit(h, f)
  PROVE  OneLife(w)' /\ Sessions'
<1>1. f.round = "commit" /\ admit(h, f) /\ UNCHANGED <<coordinator, shares, history, lives>>
  BY DEF handle_commit
<1>2. UNCHANGED <<next_session, ceremony, queue, late, lives>>
  BY <1>1 DEF coordinator, history
<1> DEFINE new == [holder |-> h, session |-> f.session, nonce |-> made[h] + 1]
           reply == Answer(h, f, "commitment", made[h] + 1, NoShare)
<1>3. PICK r : /\ Deliver(f, {r}) /\ r.to = coordinator_id /\ r.from = h
               /\ \/ NonceOf(h, f.session) # {} /\ nonces' = nonces
                  \/ NonceOf(h, f.session) = {} /\ nonces' = nonces \cup {new} /\ r = reply
  BY DEF handle_commit, Refusal, Answer
<1>4. /\ f \in Open(h) /\ f.to = h /\ f \in Request /\ h # coordinator_id
      /\ wire' \subseteq wire \cup {r}
      /\ \A g \in Holders \ {h} : Open(g)' \subseteq Open(g)
      /\ \A g \in Holders : \A e \in wire' : e.to = g => e \in wire
      /\ Accounted(w, h) => /\ Accounted(w, h)' /\ w.msg # NoMessage /\ w.awaits = h
                            /\ queue[h] = <<>> /\ Open(h) = {f} /\ Open(h)' \subseteq {r}
  BY <1>2, <1>3, RequestTaken
<1>5. /\ f.life = 1 /\ f.session < next_session
      /\ \A g \in Holders : guard'[g] = IF g = h THEN guard[h] \cup {Key(f)} ELSE guard[g]
      /\ \A g \in Holders : \A e \in guard'[g] : e.life = 1 /\ e.session < next_session
  BY <1>1, AdmitInOneLife
<1>6. \A g \in Holders \ {h} : \A s : NonceOf(g, s)' = NonceOf(g, s)
  BY <1>3 DEF NonceOf
<1>7. h \notin late => Accounted(w, h)'
  BY <1>4 DEF OneLife
<1>8. ASSUME h \notin late, HolderReady(w, h)
      PROVE  HolderReady(w, h)'
  <2>1. /\ w.msg # NoMessage /\ w.awaits = h /\ queue[h] = <<>> /\ Open(h) = {f}
        /\ Open(h)' \subseteq {r}
    BY <1>4, <1>8 DEF OneLife
  <2>2. RequestFits(w, h, f)
    BY <1>4, <1>8, <2>1 DEF HolderReady
  <2>3. f.session = w.session /\ w.round = "commit" /\ NonceOf(h, w.session) = {}
    BY <1>1, <2>2 DEF RequestFits, FrameOf
  <2>4. nonces' = nonces \cup {new} /\ r = reply
    BY <1>3, <2>3
  <2>5. r.nonce = made[h] + 1 /\ r.session = w.session /\ r.round = "commitment"
    BY <2>3, <2>4 DEF Answer
  <2>6. Keeps(w, h, r.nonce)'
    BY <2>3, <2>4, <2>5 DEF Keeps, NonceOf
  <2>7. ReplyFits(w, h, r)'
    BY <2>3, <2>5, <2>6 DEF ReplyFits, Fits
  <2>8. Unasked(h, w.session, "package") => Unasked(h, w.session, "package")'
    BY <1>1, <1>4, <1>5 DEF Unasked, Key
  <2>9. w.awaits \notin Heard(w)
    BY <2>1, <2>3 DEF OneLife, Rounds
  <2>10. queue'[h] = <<>> /\ Heard(w)' = Heard(w) /\ (\A e \in Open(h)' : e = r)
    BY <1>2, <2>1 DEF Heard
  <2>11. Len(queue'[h]) = 0
    BY <2>10
  <2> HIDE DEF new, reply
  <2> QED
    BY <1>3, <1>8, <2>1, <2>3, <2>7, <2>8, <2>9, <2>10, <2>11 DEF HolderReady
<1>9. OneLife(w)'
  <2>1. \A g \in Holders \ {h} :
           /\ Open(g)' \subseteq Open(g) /\ queue'[g] = queue[g] /\ guard'[g] = guard[g]
           /\ \A s : NonceOf(g, s)' = NonceOf(g, s)
           /\ \A e \in wire' : e.to = g => e \in wire
    BY <1>2, <1>4, <1>5, <1>6
  <2> QED
    BY <1>2, <1>7, <1>8, <2>1, AtOneHolder
<1>10. Sessions'
  BY <1>2, <1>3, <1>4, <1>5 DEF Sessions
<1> QED
  BY <1>9, <1>10


LEMMA SignInOneLife ==
  ASSUME RefInv, NEW w, w \in Ceremony, OneLife(w), Sessions,
         NEW h \in Holders, NEW f \in Requests(h), handle_sign(h, f)
  PROVE  OneLife(w)' /\ Sessions'
<1>1. /\ f.round = "package" /\ admit(h, f) /\ nonces' = nonces \ NonceOf(h, f.session)
      /\ UNCHANGED <<coordinator, history, lives>>
  BY DEF handle_sign, Kept
<1>2. UNCHANGED <<next_session, ceremony, queue, late, lives>>
  BY <1>1 DEF coordinator, history
<1> DEFINE Endorsed(n) == validate(h, f) /\ Commits(h, n, f.package)
           ShareOf(n) == [holder |-> h, nonce |-> n.nonce, package |-> f.package]
<1>3. PICK r : /\ Deliver(f, {r}) /\ r.to = coordinator_id /\ r.from = h
               /\ \/ ~\E n \in NonceOf(h, f.session) : Endorsed(n)
                  \/ \E n \in NonceOf(h, f.session) :
                       Endorsed(n) /\ r = Answer(h, f, "share", 0, ShareOf(n))
  BY DEF handle_sign, Refusal, Answer
<1> HIDE DEF Endorsed
<1>4. /\ f \in Open(h) /\ f.to = h /\ f \in Request /\ h # coordinator_id
      /\ wire' \subseteq wire \cup {r}
      /\ \A g \in Holders \ {h} : Open(g)' \subseteq Open(g)
      /\ \A g \in Holders : \A e \in wire' : e.to = g => e \in wire
      /\ Accounted(w, h) => /\ Accounted(w, h)' /\ w.msg # NoMessage /\ w.awaits = h
                            /\ queue[h] = <<>> /\ Open(h) = {f} /\ Open(h)' \subseteq {r}
  BY <1>2, <1>3, RequestTaken
<1>5. /\ \A g \in Holders : guard'[g] = IF g = h THEN guard[h] \cup {Key(f)} ELSE guard[g]
      /\ \A g \in Holders : \A e \in guard'[g] : e.life = 1 /\ e.session < next_session
  BY <1>1, AdmitInOneLife
<1>6. \A g \in Holders \ {h} : \A s : NonceOf(g, s)' = NonceOf(g, s)
  BY <1>1 DEF NonceOf
<1>7. h \notin late => Accounted(w, h)'
  BY <1>4 DEF OneLife
<1>8. ASSUME h \notin late, h \in w.signer_set, HolderReady(w, h)
      PROVE  HolderReady(w, h)'
  <2>1. /\ w.msg # NoMessage /\ w.awaits = h /\ queue[h] = <<>> /\ Open(h) = {f}
        /\ Open(h)' \subseteq {r}
    BY <1>4, <1>8 DEF OneLife
  <2>2. RequestFits(w, h, f)
    BY <1>4, <1>8, <2>1 DEF HolderReady
  <2>3. /\ f.session = w.session /\ w.round = "package" /\ f.package = PackageOf(w)
        /\ f.intent = w.msg /\ f.signer_set = w.signer_set
    <3>1. f = FrameOf(w)
      BY <2>2 DEF RequestFits
    <3>2. f.session = w.session /\ f.round = w.round /\ f.intent = w.msg /\ f.signer_set = w.signer_set
          /\ f.package = [PackageOf(w) EXCEPT !.commitments = IF w.round = "commit" THEN {} ELSE @]
      BY <3>1 DEF FrameOf
    <3> QED
      BY <1>1, <3>2 DEF PackageOf
  <2>4. KeepsIts(w, h)
    BY <2>2, <2>3 DEF RequestFits
  <2>5. PICK n \in Nat : Keeps(w, h, n) /\ \A k \in w.commitments : k.holder = h => k.nonce = n
    BY <2>4 DEF KeepsIts
  <2>6. Heard(w) = w.signer_set /\ w.signer_set \in Combinations /\ w.awaits \notin Given(w)
    BY <2>1, <2>3 DEF OneLife, Rounds
  <2>7. [holder |-> h, nonce |-> n] \in w.commitments
    <3>1. PICK k \in w.commitments : k.holder = h
      BY <1>8, <2>6 DEF Heard
    <3>2. k = [holder |-> k.holder, nonce |-> k.nonce]
      BY DEF Ceremony, Commitment
    <3> QED
      BY <2>5, <3>1, <3>2
  <2>8. validate(h, f)
    <3>1. f.package.msg = w.msg /\ f.package.commitments = w.commitments
      BY <2>3 DEF PackageOf
    <3>2. Cardinality(f.signer_set) >= Threshold
      BY <2>3, <2>6, CosignAssumption DEF Combinations
    <3> QED
      BY <1>8, <2>3, <2>6, <3>1, <3>2 DEF validate, Heard
  <2>9. NonceOf(h, f.session) = {[holder |-> h, session |-> w.session, nonce |-> n]}
    BY <2>3, <2>5 DEF Keeps
  <2>10. Endorsed([holder |-> h, session |-> w.session, nonce |-> n])
    BY <2>3, <2>7, <2>8 DEF Endorsed, Commits, PackageOf
  <2>11. r = Answer(h, f, "share", 0, ShareOf([holder |-> h, session |-> w.session, nonce |-> n]))
    BY <1>3, <2>9, <2>10
  <2>12. /\ r.session = w.session /\ r.round = "share"
         /\ r.share = [holder |-> h, nonce |-> n, package |-> PackageOf(w)]
    BY <2>3, <2>11 DEF Answer
  <2>13. ReplyFits(w, h, r)'
    BY <2>3, <2>7, <2>12 DEF ReplyFits, Fits, ShareFits, PackageOf
  <2>14. queue'[h] = <<>> /\ (\A e \in Open(h)' : e = r)
    BY <1>2, <2>1
  <2>15. Len(queue'[h]) = 0
    BY <2>14
  <2> QED
    BY <1>3, <2>1, <2>3, <2>13, <2>14, <2>15 DEF HolderReady
<1>9. OneLife(w)'
  <2>1. \A g \in Holders \ {h} :
           /\ Open(g)' \subseteq Open(g) /\ queue'[g] = queue[g] /\ guard'[g] = guard[g]
           /\ \A s : NonceOf(g, s)' = NonceOf(g, s)
           /\ \A e \in wire' : e.to = g => e \in wire
    BY <1>2, <1>4, <1>5, <1>6
  <2> QED
    BY <1>2, <1>7, <1>8, <2>1, AtOneHolder
<1>10. Sessions'
  BY <1>1, <1>2, <1>3, <1>4, <1>5 DEF Sessions
<1> QED
  BY <1>9, <1>10

(* Steps of the caller.                                                        *)

\* A new subset: nothing of its session is on the way, kept or admitted yet.
LEMMA AttemptInOneLife ==
  ASSUME RefInv, Sessions, lives = 1, NEW c \in Callers, NEW m \in Messages,
         NEW tried \in SUBSET SUBSET Holders, NEW missed \in SUBSET Holders, NEW frames \in SUBSET wire,
         Attempt(c, m, tried, missed, frames),
         UNCHANGED <<guard, nonces, lives>>, \A P \in tried : P \cap late' # {},
         \A h \in Holders \ late' :
           /\ queue'[h] = <<>>
           /\ \A f \in frames \ delivered' : ~(f.to = h \/ (f.to = coordinator_id /\ f.from = h)),
         NEW v, v = ceremony'[c]
  PROVE  OneLife(v)' /\ Sessions'
<1>0. PICK Q \in quorum_subsets(tried) :
      /\ GoOn(c, [Idle EXCEPT !.msg = m, !.signer_set = Q, !.tried = tried \cup {Q},
                              !.session = next_session, !.missed = missed], Q, frames)
      /\ next_session' = next_session + 1
  BY DEF Attempt
<1> DEFINE w == [Idle EXCEPT !.msg = m, !.signer_set = Q, !.tried = tried \cup {Q},
                             !.session = next_session, !.missed = missed]
<1>1. PICK a \in Q : ceremony' = [ceremony EXCEPT ![c] = [w EXCEPT !.awaits = a]]
                     /\ wire' = frames \cup {FrameOf([w EXCEPT !.awaits = a])}
  BY <1>0 DEF GoOn
<1>2. v = [w EXCEPT !.awaits = a]
  BY <1>1 DEF RefInv, TypeOK
<1>3. /\ v.msg = m /\ v.signer_set = Q /\ v.tried = tried \cup {Q} /\ v.session = next_session
      /\ v.round = "commit" /\ v.awaits = a /\ v.commitments = {} /\ v.parts = {}
  BY <1>2 DEF Idle
<1>2a. PICK sent : sent = FrameOf(v)
  OBVIOUS
<1>4. wire' = frames \cup {sent}
  BY <1>1, <1>2, <1>2a
<1>5. sent.to = a /\ sent.life = 1 /\ sent.session = next_session /\ sent.round = "commit"
  BY <1>3, <1>2a DEF FrameOf
<1> HIDE DEF w
<1>6. Q \in Combinations /\ a \in Holders /\ next_session \in Nat /\ m # NoMessage
  BY CombinationsAreHolders, CosignAssumption DEF quorum_subsets, RefInv, TypeOK
<1>7. FrameOf(v)' = sent
  BY <1>2a DEF FrameOf, PackageOf
<1>8. /\ \A f \in wire : f.to # coordinator_id => f.life = 1 /\ f.session \in Nat /\ f.session < next_session
      /\ \A h \in Holders : \A e \in guard[h] :
           e.life = 1 /\ e.session \in Nat /\ e.session < next_session
      /\ \A n \in nonces : n.session \in Nat /\ n.session < next_session
  BY DEF Sessions, RefInv, TypeOK, Request, Response
<1>9. Sessions'
  BY <1>0, <1>4, <1>5, <1>6, <1>8 DEF Sessions
<1>10. \A h \in Holders \ late' :
         queue'[h] = <<>> /\ Open(h)' \subseteq (IF h = a THEN {sent} ELSE {})
  <2> TAKE h \in Holders \ late'
  <2>1. sent.to # coordinator_id /\ (sent.to = h => h = a)
    BY <1>5, <1>6, CosignAssumption
  <2> QED
    BY <1>4, <2>1 DEF Open
<1>11. \A h \in Holders \ late' : Accounted(v, h)'
  BY <1>3, <1>6, <1>10 DEF Accounted, OneFrame, Quiet
<1>12. Rounds(v)'
  BY <1>0, <1>3, <1>6 DEF Rounds, Heard, Given, Combinations
<1>13. TriedInVain(v)'
  BY <1>3 DEF TriedInVain
<1>14. ASSUME NEW h \in Q, h \notin late' PROVE HolderReady(v, h)'
  <2>1. h \in Holders /\ h # coordinator_id /\ h \notin late'
    BY <1>6, <1>14, CombinationsAreHolders, CosignAssumption
  <2>2. NonceOf(h, v.session)' = {} /\ \A e \in guard'[h] : e.session # v.session
    BY <1>3, <1>6, <1>8, <2>1 DEF NonceOf
  <2>3. \A f \in wire' : f.to = h /\ f.session = v.session => f = sent
    BY <1>3, <1>4, <1>6, <1>8, <2>1
  <2>4. Unasked(h, v.session, "package")' /\ (h # a => Unasked(h, v.session, "commit")')
    BY <1>5, <2>2, <2>3 DEF Unasked
  <2>5. RequestFits(v, h, sent)'
    <3>1. ~Seen(h, sent)'
      BY <1>3, <1>5, <2>2 DEF Seen
    <3> QED
      BY <1>3, <1>7, <2>2, <3>1 DEF RequestFits
  <2>6. Open(h)' \subseteq {sent} /\ sent.to # coordinator_id
    BY <1>5, <1>6, <1>10, <2>1, CosignAssumption
  <2>7. queue'[h] = <<>> /\ Len(queue'[h]) = 0 /\ h \notin Heard(v)'
    BY <1>3, <1>10, <2>1 DEF Heard
  <2> QED
    BY <1>3, <2>2, <2>4, <2>5, <2>6, <2>7 DEF HolderReady
<1>15. v.signer_set \cap late' = {} => WillSign(v)'
  BY <1>3, <1>14 DEF WillSign
<1> QED
  BY <1>9, <1>11, <1>12, <1>13, <1>15 DEF OneLife


\* A failed attempt: one of its holders was late, as in all the attempts before it.
LEMMA AbandonInOneLife ==
  ASSUME RefInv, Sessions, lives = 1, FailureExplained, NEW c \in Callers, Active(c),
         TriedInVain(ceremony[c]), late \subseteq late', ceremony[c].signer_set \cap late' # {},
         NEW missed \in SUBSET Holders, NEW frames \in SUBSET wire, Abandon(c, missed, frames),
         UNCHANGED <<guard, nonces, lives>>,
         \A h \in Holders \ late' :
           /\ queue'[h] = <<>>
           /\ \A f \in frames \ delivered' : ~(f.to = h \/ (f.to = coordinator_id /\ f.from = h)),
         NEW v, v = ceremony'[c]
  PROVE  OneLife(v)' /\ Sessions' /\ FailureExplained'
<1> DEFINE w == ceremony[c]
<1>1. w.msg \in Messages /\ w.tried \in SUBSET SUBSET Holders
  BY DEF RefInv, TypeOK, Ceremony, Active
<1>2. \A P \in w.tried : P \cap late' # {}
  BY DEF TriedInVain
<1>3. CASE Attempt(c, w.msg, w.tried, missed, frames) /\ UNCHANGED failures
  <2>1. OneLife(v)' /\ Sessions'
    <3> HIDE DEF w
    <3> QED
      BY <1>1, <1>2, <1>3, AttemptInOneLife
  <2>2. FailureExplained'
    BY <1>3 DEF FailureExplained, Combinations
  <2> QED
    BY <2>1, <2>2
<1>4. CASE /\ quorum_subsets(w.tried) = {}
           /\ ceremony' = [ceremony EXCEPT ![c] = Idle]
           /\ failures' = failures \cup {[life |-> lives, missed |-> missed, late |-> late']}
           /\ wire' = frames
           /\ UNCHANGED next_session
  <2>1. v = Idle /\ v.msg = NoMessage
    BY <1>4, IdleOK DEF RefInv, TypeOK
  <2>2. \A h \in Holders \ late' : queue'[h] = <<>> /\ Open(h)' = {}
    BY <1>4 DEF Open
  <2>3. OneLife(v)'
    BY <2>1, <2>2 DEF OneLife, Accounted, OneFrame, Quiet
  <2>4. Sessions'
    BY <1>4 DEF Sessions
  <2>5. \A Q \in Combinations : Q \cap late' # {}
    BY <1>2, <1>4 DEF quorum_subsets
  <2>6. FailureExplained'
    BY <1>4, <2>5 DEF FailureExplained, Combinations
  <2> QED
    BY <2>3, <2>4, <2>6
<1> QED
  BY <1>3, <1>4 DEF Abandon

LEMMA StartInOneLife ==
  ASSUME RefInv, Sessions, lives = 1, FailureExplained, NEW c \in Callers, OneLife(ceremony[c]), Start(c),
         NEW v, v = ceremony'[c]
  PROVE  OneLife(v)' /\ Sessions' /\ FailureExplained'
<1>1. /\ ~Active(c) /\ UNCHANGED <<queue, holder, delivered, history, lives>>
      /\ \E m \in Messages : Attempt(c, m, {}, {}, wire)
  BY DEF Start
<1>2. UNCHANGED <<queue, guard, nonces, delivered, late, failures, lives>>
  BY <1>1 DEF holder, history
<1>3. \A h \in Holders \ late' : Quiet(h)
  BY <1>1, <1>2 DEF OneLife, Accounted, Active
<1>4. \A h \in Holders \ late' :
        /\ queue'[h] = <<>>
        /\ \A f \in wire \ delivered' : ~(f.to = h \/ (f.to = coordinator_id /\ f.from = h))
  BY <1>2, <1>3 DEF Quiet, Open
<1>5. {} \in SUBSET SUBSET Holders /\ {} \in SUBSET Holders /\ \A P \in {} : P \cap late' # {}
  OBVIOUS
<1>6. OneLife(v)' /\ Sessions'
  BY <1>1, <1>2, <1>4, <1>5, AttemptInOneLife
<1>7. FailureExplained'
  BY <1>2 DEF FailureExplained, Combinations
<1> QED
  BY <1>6, <1>7

LEMMA TimesOutInOneLife ==
  ASSUME RefInv, Sessions, lives = 1, FailureExplained, NEW c \in Callers, OneLife(ceremony[c]), TimesOut(c),
         NEW v, v = ceremony'[c]
  PROVE  OneLife(v)' /\ Sessions' /\ FailureExplained'
<1> DEFINE w == ceremony[c]  h == w.awaits  missed == w.missed \cup {h}
<1>1. /\ Active(c) /\ late' = late \cup {h} /\ UNCHANGED <<queue, holder, lives>>
      /\ \/ Abandon(c, missed, wire \ Exchange(c)) /\ delivered' = delivered \ Exchange(c)
         \/ Abandon(c, missed, wire) /\ delivered' = delivered
  BY DEF TimesOut, Remembered
<1>2. h \in Holders /\ missed \in SUBSET Holders
  BY <1>1 DEF Active, RefInv, Backed, CeremonyOK, TypeOK, Ceremony
<1>3. Rounds(w) /\ TriedInVain(w)
  BY <1>1 DEF OneLife, Active
<1>4. w.signer_set \cap late' # {} /\ late \subseteq late'
  BY <1>1, <1>3 DEF Rounds
<1>5. UNCHANGED <<guard, nonces, lives>>
  BY <1>1 DEF holder
<1>6. \A g \in Holders \ late' : Quiet(g)
  BY <1>1 DEF OneLife, Accounted
<1>7. PICK frames \in SUBSET wire :
        Abandon(c, missed, frames) /\ frames \ delivered' \subseteq wire \ delivered
  BY <1>1
<1>8. \A g \in Holders \ late' :
        /\ queue'[g] = <<>>
        /\ \A f \in frames \ delivered' : ~(f.to = g \/ (f.to = coordinator_id /\ f.from = g))
  BY <1>1, <1>6, <1>7 DEF Quiet, Open
<1> HIDE DEF missed, h
<1> QED
  BY <1>1, <1>2, <1>3, <1>4, <1>5, <1>7, <1>8, AbandonInOneLife

\* Once the reply is read, nothing more comes from whoever was never late.
LEMMA ReadIsLast ==
  ASSUME RefInv, NEW c \in Callers, OneLife(ceremony[c]), Answered(c), Popped(c)
  PROVE  /\ \A h \in Holders \ late : queue'[h] = <<>> /\ Open(h) = {}
         /\ Reply(c) = queue[ceremony[c].awaits][1] /\ 1 \in 1..Len(queue[ceremony[c].awaits])
<1> DEFINE w == ceremony[c]  a == w.awaits
<1>1. a \in Holders /\ queue[a] \in Seq(Response) /\ queue[a] # <<>> /\ w.msg # NoMessage
  BY DEF Answered, Active, RefInv, Backed, CeremonyOK, TypeOK
<1>2. /\ Head(queue[a]) = queue[a][1] /\ 1 \in 1..Len(queue[a])
      /\ Tail(queue[a]) \in Seq(Response) /\ Len(Tail(queue[a])) = Len(queue[a]) - 1
  BY <1>1, HeadTailProperties
<1>3. queue' = [queue EXCEPT ![a] = Tail(queue[a])] /\ Reply(c) = queue[a][1]
  BY <1>2 DEF Popped, Reply
<1>4. ASSUME NEW h \in Holders \ late PROVE queue'[h] = <<>> /\ Open(h) = {}
  <2>1. Accounted(w, h)
    BY DEF OneLife
  <2>2. CASE h = a
    <3>1. Len(queue[a]) = 1 /\ Open(a) = {}
      BY <1>1, <2>1, <2>2 DEF Accounted, OneFrame
    <3>2. Tail(queue[a]) = <<>>
      <4>1. Len(Tail(queue[a])) = 0
        BY <1>2, <3>1
      <4> QED
        BY <1>2, <4>1, EmptySeq
    <3> QED
      BY <1>1, <1>3, <2>2, <3>1, <3>2 DEF RefInv, TypeOK
  <2>3. CASE h # a
    BY <1>1, <1>3, <2>1, <2>3 DEF Accounted, Quiet, RefInv, TypeOK
  <2> QED
    BY <2>2, <2>3
<1> QED
  BY <1>2, <1>3, <1>4

\* So a subset of such holders reads only what fits.
LEMMA ReplyReadFits ==
  ASSUME RefInv, NEW c \in Callers, OneLife(ceremony[c]), Answered(c), Popped(c),
         ceremony[c].signer_set \cap late = {}
  PROVE  ReplyFits(ceremony[c], ceremony[c].awaits, Reply(c))
<1> DEFINE w == ceremony[c]
<1>1. WillSign(w) /\ w.awaits \in w.signer_set
  BY DEF OneLife, Answered, Active, Rounds
<1>2. HolderReady(w, w.awaits)
  BY <1>1 DEF WillSign
<1> QED
  BY <1>2, ReadIsLast DEF HolderReady

LEMMA MisfitInOneLife ==
  ASSUME RefInv, Sessions, lives = 1, FailureExplained, NEW c \in Callers, OneLife(ceremony[c]), Misfit(c),
         NEW v, v = ceremony'[c]
  PROVE  OneLife(v)' /\ Sessions' /\ FailureExplained'
<1> DEFINE w == ceremony[c]
<1>1. /\ Answered(c) /\ Popped(c) /\ Active(c) /\ ~Fits(w, Reply(c)) /\ Abandon(c, w.missed, wire)
      /\ UNCHANGED <<holder, delivered, lives, late>>
  BY DEF Misfit, Answered
<1>2. w.signer_set \cap late # {}
  BY <1>1, ReplyReadFits DEF ReplyFits
<1>3. TriedInVain(w) /\ w.missed \in SUBSET Holders
  BY <1>1 DEF OneLife, Active, RefInv, TypeOK, Ceremony
<1>4. UNCHANGED <<guard, nonces>>
  BY <1>1 DEF holder
<1>5. \A h \in Holders \ late' :
        /\ queue'[h] = <<>>
        /\ \A f \in wire \ delivered' : ~(f.to = h \/ (f.to = coordinator_id /\ f.from = h))
  BY <1>1, ReadIsLast DEF Open
<1> HIDE DEF w
<1>6. w = ceremony[c]
  BY DEF w
<1> QED
  BY <1>1, <1>2, <1>3, <1>4, <1>5, <1>6, AbandonInOneLife


\* What must hold of a holder before the next request of w goes out.
ReadyNext(w, h) ==
  /\ w.round = "commit" => Unasked(h, w.session, "package")
  /\ w.round = "commit" /\ h \notin Heard(w) => Unasked(h, w.session, "commit") /\ NonceOf(h, w.session) = {}
  /\ w.round = "commit" /\ h \in Heard(w) => KeepsIts(w, h)
  /\ w.round = "package" /\ h \notin Given(w) => Unasked(h, w.session, "package") /\ KeepsIts(w, h)

\* A reply was read and the next request of the session goes out.
LEMMA GoesOnInOneLife ==
  ASSUME RefInv, Sessions, lives = 1, NEW c \in Callers, OneLife(ceremony[c]), Answered(c), Popped(c),
         UNCHANGED <<next_session, holder, delivered, history, lives>>,
         NEW v, v.tried = ceremony[c].tried, v.signer_set = ceremony[c].signer_set,
         v.msg # NoMessage, Rounds(v), v.round \in {"commit", "package"},
         NEW sent, sent = FrameOf(v), wire' = wire \cup {sent},
         v.signer_set \cap late = {} =>
           (\A x \in v.parts : ShareFits(v, x)) /\ (\A h \in v.signer_set : ReadyNext(v, h))
  PROVE  OneLife(v)' /\ Sessions'
<1> DEFINE a == v.awaits
<1>1. UNCHANGED <<next_session, guard, nonces, delivered, late, lives>>
  BY DEF holder, history
<1>2. a \in v.signer_set /\ v.signer_set \subseteq Holders /\ v.session < next_session
  BY CombinationsAreHolders DEF Rounds
<1>3. sent.to = a /\ sent.life = 1 /\ sent.session = v.session /\ sent.round = v.round
  BY DEF FrameOf
<1>4. FrameOf(v)' = sent
  BY <1>1 DEF FrameOf, PackageOf
<1>5. \A h \in Holders : h # coordinator_id
  BY CosignAssumption
<1>6. \A h \in Holders \ late' : queue'[h] = <<>> /\ Open(h)' \subseteq (IF h = a THEN {sent} ELSE {})
  <2> TAKE h \in Holders \ late'
  <2>1. queue'[h] = <<>> /\ Open(h) = {}
    BY <1>1, ReadIsLast
  <2>2. sent.to # coordinator_id /\ (sent.to = h => h = a)
    BY <1>2, <1>3, <1>5
  <2> QED
    BY <1>1, <2>1, <2>2 DEF Open
<1>7. \A h \in Holders \ late' : Accounted(v, h)'
  BY <1>6 DEF Accounted, OneFrame, Quiet
<1>8. Rounds(v)'
  BY <1>1 DEF Rounds, Heard, Given, Combinations
<1>9. TriedInVain(v)'
  BY <1>1 DEF OneLife, Answered, Active, TriedInVain
<1>10. ASSUME NEW h \in v.signer_set, h \notin late', ReadyNext(v, h)
       PROVE  HolderReady(v, h)'
  <2>1. h \in Holders /\ h # coordinator_id
    BY <1>2, <1>5
  <2>2. Heard(v)' = Heard(v) /\ Given(v)' = Given(v) /\ NonceOf(h, v.session)' = NonceOf(h, v.session)
    BY <1>1 DEF Heard, Given, NonceOf
  <2>3. KeepsIts(v, h)' <=> KeepsIts(v, h)
    BY <2>2 DEF KeepsIts, Keeps
  <2>4. \A r : Unasked(h, v.session, r) /\ (h # a \/ r # v.round) => Unasked(h, v.session, r)'
    BY <1>1, <1>3 DEF Unasked
  <2>5. ASSUME h = a PROVE RequestFits(v, h, sent)'
    <3>1. v.round = "commit" => h \notin Heard(v) /\ Unasked(h, v.session, "commit")
                                /\ NonceOf(h, v.session) = {}
      BY <1>10, <2>5 DEF ReadyNext, Rounds
    <3>2. v.round = "package" => h \notin Given(v) /\ Unasked(h, v.session, "package") /\ KeepsIts(v, h)
      BY <1>10, <2>5 DEF ReadyNext, Rounds
    <3>3. \A e \in guard[h] : e.session = v.session => e.round # v.round
      BY <3>1, <3>2 DEF Unasked
    <3>4. ~Seen(h, sent)'
      BY <1>1, <1>3, <3>3 DEF Seen
    <3> QED
      BY <1>4, <2>2, <2>3, <3>1, <3>2, <3>4 DEF RequestFits
  <2>6. /\ queue'[h] = <<>> /\ Len(queue'[h]) = 0
        /\ Open(h)' \subseteq (IF h = a THEN {sent} ELSE {}) /\ sent.to # coordinator_id
    BY <1>2, <1>3, <1>5, <1>6, <1>10, <2>1
  <2>7. v.round = "commit" => a \notin Heard(v)
    BY DEF Rounds
  <2> QED
    BY <1>10, <2>2, <2>3, <2>4, <2>5, <2>6, <2>7 DEF HolderReady, ReadyNext
<1>11. ASSUME v.signer_set \cap late' = {} PROVE WillSign(v)'
  <2>1. \A x \in v.parts : ShareFits(v, x)'
    BY <1>1, <1>11 DEF ShareFits, PackageOf
  <2>2. \A h \in v.signer_set : HolderReady(v, h)'
    BY <1>1, <1>10, <1>11
  <2> QED
    BY <2>1, <2>2 DEF WillSign
<1>12. Sessions'
  BY <1>1, <1>2, <1>3 DEF Sessions
<1> QED
  BY <1>7, <1>8, <1>9, <1>11, <1>12 DEF OneLife

\* The holders that were heard keep the nonce they committed to, the awaited one too.
LEMMA HeardKeepTheirs ==
  ASSUME NEW w, NEW v, NEW n \in Nat, NEW h, Keeps(w, w.awaits, n),
         v.session = w.session, w.awaits \notin Heard(w),
         v.commitments = w.commitments \cup {[holder |-> w.awaits, nonce |-> n]},
         h # w.awaits => KeepsIts(w, h)
  PROVE  KeepsIts(v, h)
<1>1. CASE h = w.awaits
  <2>1. Keeps(v, h, n)
    BY <1>1 DEF Keeps
  <2>2. \A k \in v.commitments : k.holder = h => k.nonce = n
    BY <1>1 DEF Heard
  <2> QED
    BY <2>1, <2>2 DEF KeepsIts
<1>2. CASE h # w.awaits
  <2>1. PICK m \in Nat : Keeps(w, h, m) /\ \A k \in w.commitments : k.holder = h => k.nonce = m
    BY <1>2 DEF KeepsIts
  <2>2. Keeps(v, h, m)
    BY <2>1 DEF Keeps
  <2>3. \A k \in v.commitments : k.holder = h => k.nonce = m
    BY <1>2, <2>1
  <2> QED
    BY <2>2, <2>3 DEF KeepsIts
<1> QED
  BY <1>1, <1>2

LEMMA CommittedInOneLife ==
  ASSUME RefInv, Sessions, lives = 1, NEW c \in Callers, OneLife(ceremony[c]), Committed(c),
         NEW v, v = ceremony'[c]
  PROVE  OneLife(v)' /\ Sessions'
<1>1. PICK w : w = ceremony[c]
  OBVIOUS
<1>2. PICK r : r = Reply(c)
  OBVIOUS
<1> DEFINE new == [holder |-> w.awaits, nonce |-> r.nonce]
           noted == [w EXCEPT !.commitments = @ \cup {new}]
           unheard == {h \in w.signer_set : \A k \in noted.commitments : k.holder # h}
<1>3. /\ Answered(c) /\ Active(c) /\ w.round = "commit" /\ Fits(w, r) /\ Popped(c)
      /\ \/ GoOn(c, noted, unheard, wire)
         \/ unheard = {} /\ GoOn(c, [noted EXCEPT !.round = "package"], w.signer_set, wire)
      /\ UNCHANGED <<next_session, holder, delivered, history, lives>>
  BY <1>1, <1>2 DEF Committed, Answered
<1>4. /\ w \in Ceremony /\ w.awaits \in Holders /\ w.msg # NoMessage
      /\ Rounds(w) /\ TriedInVain(w) /\ r.nonce \in Nat
  <2>1. w \in Ceremony /\ w.awaits \in Holders /\ w.msg # NoMessage /\ Rounds(w) /\ TriedInVain(w)
    BY <1>1, <1>3 DEF RefInv, Backed, CeremonyOK, TypeOK, Active, OneLife
  <2>2. r \in Response
    <3>1. queue[w.awaits] \in Seq(Response) /\ 1 \in 1..Len(queue[w.awaits]) /\ r = queue[w.awaits][1]
      BY <1>1, <1>2, <1>3, <2>1, ReadIsLast DEF RefInv, TypeOK
    <3> QED
      BY <3>1, ElementOfSeq
  <2> QED
    BY <2>1, <2>2 DEF Response
<1>5. PICK p \in {"commit", "package"}, a \in w.signer_set :
        /\ v = [[noted EXCEPT !.round = p] EXCEPT !.awaits = a]
        /\ wire' = wire \cup {FrameOf(v)}
        /\ p = "commit" => a \in unheard
        /\ p = "package" => unheard = {}
  <2>1. CASE GoOn(c, noted, unheard, wire)
    <3>1. PICK a \in unheard : /\ ceremony' = [ceremony EXCEPT ![c] = [noted EXCEPT !.awaits = a]]
                               /\ wire' = wire \cup {FrameOf([noted EXCEPT !.awaits = a])}
      BY <2>1 DEF GoOn
    <3>2. v = [noted EXCEPT !.awaits = a]
      BY <3>1 DEF RefInv, TypeOK
    <3>3. noted = [noted EXCEPT !.round = "commit"]
      BY <1>3, <1>4 DEF Ceremony
    <3> QED
      BY <3>1, <3>2, <3>3
  <2>2. CASE unheard = {} /\ GoOn(c, [noted EXCEPT !.round = "package"], w.signer_set, wire)
    <3> DEFINE turned == [noted EXCEPT !.round = "package"]
    <3>1. PICK a \in w.signer_set : /\ ceremony' = [ceremony EXCEPT ![c] = [turned EXCEPT !.awaits = a]]
                                    /\ wire' = wire \cup {FrameOf([turned EXCEPT !.awaits = a])}
      BY <2>2 DEF GoOn
    <3>2. v = [turned EXCEPT !.awaits = a]
      BY <3>1 DEF RefInv, TypeOK
    <3> QED
      BY <2>2, <3>1, <3>2
  <2> QED
    BY <1>3, <2>1, <2>2
<1>6. /\ v.msg = w.msg /\ v.tried = w.tried /\ v.signer_set = w.signer_set /\ v.session = w.session
      /\ v.parts = w.parts /\ v.round = p /\ v.awaits = a /\ v.commitments = w.commitments \cup {new}
  BY <1>4, <1>5 DEF Ceremony
<1>7. unheard = {h \in w.signer_set : h \notin Heard(v)} /\ Heard(v) = Heard(w) \cup {w.awaits}
  <2>1. noted.commitments = v.commitments /\ new.holder = w.awaits
    BY <1>4, <1>6 DEF Ceremony
  <2>2. \A h : h \in Heard(v) <=> \E k \in v.commitments : k.holder = h
    BY DEF Heard
  <2>3. Heard(v) = Heard(w) \cup {w.awaits}
    BY <1>6, <2>1 DEF Heard
  <2> QED
    BY <2>1, <2>2, <2>3
<1> HIDE DEF noted, new, unheard
<1>8. Rounds(v)
  <2>1. Given(v) = {} /\ w.awaits \notin Heard(w) /\ w.parts = {}
    BY <1>3, <1>4, <1>6 DEF Rounds, Given
  <2>2. Heard(v) \subseteq v.signer_set /\ (p = "package" => Heard(v) = v.signer_set)
    BY <1>4, <1>5, <1>6, <1>7 DEF Rounds
  <2> QED
    BY <1>4, <1>5, <1>6, <1>7, <2>1, <2>2 DEF Rounds
<1>9. ASSUME v.signer_set \cap late = {}
      PROVE  (\A x \in v.parts : ShareFits(v, x)) /\ (\A h \in v.signer_set : ReadyNext(v, h))
  <2>1. ReplyFits(w, w.awaits, r) /\ WillSign(w)
    BY <1>1, <1>2, <1>3, <1>4, <1>6, <1>9, ReplyReadFits DEF OneLife
  <2>2. Keeps(w, w.awaits, r.nonce) /\ w.awaits \notin Heard(w) /\ w.parts = {}
    BY <1>3, <1>4, <2>1 DEF ReplyFits, Rounds
  <2>3. ASSUME NEW h \in v.signer_set PROVE ReadyNext(v, h)
    <3>1. HolderReady(w, h)
      BY <1>6, <2>1 DEF WillSign
    <3>2. Unasked(h, v.session, "package")
      BY <1>3, <1>6, <3>1 DEF HolderReady
    <3>3. h \notin Heard(v) => Unasked(h, v.session, "commit") /\ NonceOf(h, v.session) = {}
      BY <1>3, <1>6, <1>7, <3>1 DEF HolderReady
    <3>4. h \in Heard(v) => KeepsIts(v, h)
      <4>1. h \in Heard(w) => KeepsIts(w, h)
        BY <1>3, <3>1 DEF HolderReady
      <4> QED
        BY <1>4, <1>6, <1>7, <2>2, <4>1, HeardKeepTheirs DEF new
    <3>5. v.round = "package" => h \in Heard(v)
      BY <1>8 DEF Rounds
    <3> QED
      BY <3>2, <3>3, <3>4, <3>5 DEF ReadyNext
  <2> QED
    BY <1>6, <2>2, <2>3
<1> QED
  BY <1>1, <1>3, <1>4, <1>5, <1>6, <1>8, <1>9, GoesOnInOneLife

LEMMA SignedInOneLife ==
  ASSUME RefInv, Sessions, lives = 1, NEW c \in Callers, OneLife(ceremony[c]), Signed(c),
         NEW v, v = ceremony'[c]
  PROVE  OneLife(v)' /\ Sessions'
<1>1. PICK w : w = ceremony[c]
  OBVIOUS
<1>2. PICK r : r = Reply(c)
  OBVIOUS
<1>3. PICK parts : parts = w.parts \cup {r.share}
  OBVIOUS
<1>4. /\ Answered(c) /\ Active(c) /\ w.round = "package" /\ Fits(w, r) /\ Popped(c)
      /\ GoOn(c, [w EXCEPT !.parts = parts], {h \in w.signer_set : \A x \in parts : x.holder # h}, wire)
      /\ UNCHANGED <<next_session, holder, delivered, history, lives>>
  BY <1>1, <1>2, <1>3 DEF Signed, Answered, PartsOf, Unsigned
<1>5. w \in Ceremony /\ w.msg # NoMessage /\ Rounds(w) /\ TriedInVain(w)
  BY <1>1, <1>4 DEF RefInv, TypeOK, Active, OneLife
<1>6. PICK a \in w.signer_set : /\ v = [[w EXCEPT !.parts = parts] EXCEPT !.awaits = a]
                                /\ wire' = wire \cup {FrameOf(v)}
                                /\ \A x \in parts : x.holder # a
  <2>1. PICK a \in {h \in w.signer_set : \A x \in parts : x.holder # h} :
          /\ ceremony' = [ceremony EXCEPT ![c] = [[w EXCEPT !.parts = parts] EXCEPT !.awaits = a]]
          /\ wire' = wire \cup {FrameOf([[w EXCEPT !.parts = parts] EXCEPT !.awaits = a])}
    BY <1>4 DEF GoOn
  <2>2. v = [[w EXCEPT !.parts = parts] EXCEPT !.awaits = a]
    BY <2>1 DEF RefInv, TypeOK
  <2> QED
    BY <2>1, <2>2
<1>7. /\ v.msg = w.msg /\ v.tried = w.tried /\ v.signer_set = w.signer_set /\ v.session = w.session
      /\ v.parts = parts /\ v.round = "package" /\ v.awaits = a /\ v.commitments = w.commitments
  BY <1>4, <1>5, <1>6 DEF Ceremony
<1>8. Rounds(v)
  BY <1>4, <1>5, <1>6, <1>7 DEF Rounds, Heard, Given
<1>9. ASSUME v.signer_set \cap late = {}
      PROVE  (\A x \in v.parts : ShareFits(v, x)) /\ (\A h \in v.signer_set : ReadyNext(v, h))
  <2>1. ReplyFits(w, w.awaits, r) /\ WillSign(w)
    BY <1>1, <1>2, <1>4, <1>5, <1>7, <1>9, ReplyReadFits DEF OneLife
  <2>2. r.share.holder = w.awaits /\ ShareFits(w, r.share)
    BY <1>4, <2>1 DEF ReplyFits
  <2>3. \A x \in v.parts : ShareFits(v, x)
    BY <1>3, <1>7, <2>1, <2>2 DEF WillSign, ShareFits, PackageOf
  <2>4. ASSUME NEW h \in v.signer_set, h \notin Given(v)
        PROVE  Unasked(h, v.session, "package") /\ KeepsIts(v, h)
    <3>1. h \notin Given(w) /\ h # w.awaits
      BY <1>3, <1>7, <2>2, <2>4 DEF Given
    <3>2. HolderReady(w, h)
      BY <1>7, <2>1, <2>4 DEF WillSign
    <3>3. Unasked(h, w.session, "package") /\ KeepsIts(w, h)
      BY <1>4, <3>1, <3>2 DEF HolderReady
    <3> QED
      BY <1>7, <3>3 DEF KeepsIts, Keeps
  <2> QED
    BY <1>7, <2>3, <2>4 DEF ReadyNext
<1> QED
  BY <1>1, <1>4, <1>5, <1>6, <1>7, <1>8, <1>9, GoesOnInOneLife


LEMMA LastShareInOneLife ==
  ASSUME RefInv, Sessions, lives = 1, FailureExplained, NEW c \in Callers, OneLife(ceremony[c]), LastShare(c),
         NEW v, v = ceremony'[c]
  PROVE  OneLife(v)' /\ Sessions' /\ FailureExplained'
<1>1. PICK w : w = ceremony[c]
  OBVIOUS
<1>2. PICK parts : parts = PartsOf(c)
  OBVIOUS
<1>3. /\ Answered(c) /\ Active(c) /\ w.round = "package" /\ Popped(c)
      /\ \A h \in w.signer_set : \E x \in parts : x.holder = h
      /\ UNCHANGED <<holder, delivered, lives, late>>
      /\ \/ /\ ceremony' = [ceremony EXCEPT ![c] = Idle]
            /\ UNCHANGED <<next_session, wire, failures>>
         \/ ~Aggregates(w, parts) /\ Abandon(c, w.missed, wire)
  BY <1>1, <1>2 DEF LastShare, Answered, Unsigned
<1>4. /\ UNCHANGED <<guard, nonces, delivered, lives, late>> /\ late \subseteq late'
      /\ TriedInVain(w) /\ Rounds(w) /\ w.missed \in SUBSET Holders
  BY <1>1, <1>3 DEF holder, OneLife, Active, RefInv, TypeOK, Ceremony
<1>5. \A h \in Holders \ late' :
        /\ queue'[h] = <<>>
        /\ \A f \in wire \ delivered' : ~(f.to = h \/ (f.to = coordinator_id /\ f.from = h))
  BY <1>3, ReadIsLast DEF Open
<1>6. CASE ceremony' = [ceremony EXCEPT ![c] = Idle] /\ UNCHANGED <<next_session, wire, failures>>
  <2>1. v = Idle /\ v.msg = NoMessage
    BY <1>6, IdleOK DEF RefInv, TypeOK
  <2>2. \A h \in Holders \ late' : queue'[h] = <<>> /\ Open(h)' = {}
    BY <1>5, <1>6 DEF Open
  <2>3. OneLife(v)'
    BY <2>1, <2>2 DEF OneLife, Accounted, OneFrame, Quiet
  <2>4. Sessions' /\ FailureExplained'
    BY <1>4, <1>6 DEF Sessions, FailureExplained, Combinations
  <2> QED
    BY <2>3, <2>4
<1>7. CASE ~Aggregates(w, parts) /\ Abandon(c, w.missed, wire)
  <2>1. ASSUME w.signer_set \cap late = {} PROVE FALSE
    <3>1. ReplyFits(w, w.awaits, Reply(c)) /\ WillSign(w)
      BY <1>1, <1>3, <2>1, ReplyReadFits DEF OneLife, Active
    <3>2. \A x \in parts : ShareFits(w, x)
      BY <1>1, <1>2, <1>3, <3>1 DEF WillSign, ReplyFits, PartsOf
    <3> QED
      BY <1>3, <1>7, <3>2 DEF Aggregates, ShareFits
  <2> QED
    BY <1>1, <1>3, <1>4, <1>5, <1>7, <2>1, AbandonInOneLife
<1> QED
  BY <1>3, <1>6, <1>7

(* Restarts of a holder and of the coordinator.                                *)

\* A ceremony is the same to the holders whatever it missed.
LEMMA MissedIsNoMatter ==
  ASSUME NEW w, NEW v, v.msg = w.msg, v.tried = w.tried, v.signer_set = w.signer_set,
         v.session = w.session, v.round = w.round, v.awaits = w.awaits,
         v.commitments = w.commitments, v.parts = w.parts
  PROVE  OneLife(w) => OneLife(v)
<1>1. Heard(v) = Heard(w) /\ Given(v) = Given(w) /\ PackageOf(v) = PackageOf(w) /\ FrameOf(v) = FrameOf(w)
  BY DEF Heard, Given, PackageOf, FrameOf
<1>2. \A h, n : Keeps(v, h, n) <=> Keeps(w, h, n)
  BY DEF Keeps
<1>3. \A h : KeepsIts(v, h) <=> KeepsIts(w, h)
  BY <1>2 DEF KeepsIts
<1>4. \A x : ShareFits(v, x) <=> ShareFits(w, x)
  BY <1>1 DEF ShareFits
<1>5. \A h, r : ReplyFits(v, h, r) <=> ReplyFits(w, h, r)
  BY <1>2, <1>4 DEF ReplyFits, Fits
<1>6. \A h, f : RequestFits(v, h, f) <=> RequestFits(w, h, f)
  BY <1>1, <1>3 DEF RequestFits
<1>7. \A h : HolderReady(w, h) => HolderReady(v, h)
  BY <1>1, <1>3, <1>5, <1>6 DEF HolderReady
<1>8. WillSign(w) => WillSign(v)
  BY <1>4, <1>7 DEF WillSign
<1>9. (\A h : Accounted(w, h) => Accounted(v, h)) /\ (TriedInVain(w) => TriedInVain(v))
  BY DEF Accounted, TriedInVain
<1>10. Rounds(w) => Rounds(v)
  BY <1>1 DEF Rounds
<1> QED
  BY <1>8, <1>9, <1>10 DEF OneLife

LEMMA HolderRestartInOneLife ==
  ASSUME RefInv, Sessions, FailureExplained, NEW c \in Callers, OneLife(ceremony[c]),
         NEW h \in Holders, HolderRestart(h), NEW v, v = ceremony'[c]
  PROVE  OneLife(v)' /\ Sessions' /\ FailureExplained'
<1>1. PICK w : w = ceremony[c]
  OBVIOUS
<1>2. /\ nonces' = {n \in nonces : n.holder # h} /\ guard' = [guard EXCEPT ![h] = {}]
      /\ delivered' = {f \in delivered : f.to # h} /\ late' = late \cup {h}
      /\ UNCHANGED <<next_session, queue, wire, failures, lives>>
      /\ v = IF w.msg # NoMessage THEN [w EXCEPT !.missed = @ \cup {h}] ELSE Idle
  BY <1>1 DEF HolderRestart, Active
<1>3. Sessions' /\ FailureExplained'
  <2>1. \A g \in Holders : guard'[g] \subseteq guard[g]
    BY <1>2 DEF RefInv, TypeOK
  <2> QED
    BY <1>2, <2>1 DEF Sessions, FailureExplained, Combinations
<1>4. ASSUME NEW g \in Holders \ {h}
      PROVE  /\ Open(g)' \subseteq Open(g) /\ queue'[g] = queue[g] /\ guard'[g] = guard[g]
             /\ \A s : NonceOf(g, s)' = NonceOf(g, s)
             /\ \A f \in wire' : f.to = g => f \in wire
  <2>1. h # coordinator_id
    BY CosignAssumption
  <2>2. Open(g)' \subseteq Open(g)
    BY <1>2, <2>1 DEF Open
  <2>3. guard'[g] = guard[g] /\ \A s : NonceOf(g, s)' = NonceOf(g, s)
    BY <1>2 DEF RefInv, TypeOK, NonceOf
  <2> QED
    BY <1>2, <2>2, <2>3
<1>5. CASE w.msg = NoMessage
  <2>1. v.msg = NoMessage
    BY <1>2, <1>5, IdleOK
  <2>2. ASSUME NEW g \in Holders \ late' PROVE Accounted(v, g)'
    <3>1. g \in Holders \ {h} /\ Quiet(g)
      BY <1>1, <1>2, <1>5 DEF OneLife, Accounted
    <3> QED
      BY <1>4, <3>1 DEF Accounted, OneFrame, Quiet
  <2> QED
    BY <1>3, <2>1, <2>2 DEF OneLife
<1>6. CASE w.msg # NoMessage
  <2>1. /\ v.msg = w.msg /\ v.tried = w.tried /\ v.signer_set = w.signer_set /\ v.session = w.session
        /\ v.round = w.round /\ v.awaits = w.awaits /\ v.commitments = w.commitments /\ v.parts = w.parts
    BY <1>1, <1>2, <1>6 DEF RefInv, TypeOK, Ceremony
  <2>2. OneLife(v)
    BY <1>1, <2>1, MissedIsNoMatter
  <2>3. ASSUME NEW g \in Holders \ late'
        PROVE  Accounted(v, g)' /\ (HolderReady(v, g) => HolderReady(v, g)')
    BY <1>2, <1>4, <2>2, Elsewhere DEF OneLife
  <2>4. Rounds(v)' /\ TriedInVain(v)'
    BY <1>2, <1>6, <2>1, <2>2 DEF OneLife, Rounds, TriedInVain, Heard, Given, Combinations
  <2>5. ASSUME v.signer_set \cap late' = {} PROVE WillSign(v)'
    <3>1. WillSign(v) /\ v.signer_set \subseteq Holders
      BY <1>2, <1>6, <2>1, <2>2, <2>5, CombinationsAreHolders DEF OneLife, Rounds
    <3>2. \A x \in v.parts : ShareFits(v, x)'
      BY <3>1 DEF WillSign, ShareFits, PackageOf
    <3>3. \A g \in v.signer_set : HolderReady(v, g)'
      BY <2>3, <2>5, <3>1 DEF WillSign
    <3> QED
      BY <3>2, <3>3 DEF WillSign
  <2> QED
    BY <1>3, <2>3, <2>4, <2>5 DEF OneLife
<1> QED
  BY <1>5, <1>6

\* In the first life no entry of an earlier one is there to expire.
LEMMA NothingExpires ==
  ASSUME RefInv, Sessions, lives = 1, NEW h \in Holders, Expire(h)
  PROVE  FALSE
BY DEF Expire, Sessions

\* A request that fails later fails in a later life.
LEMMA LaterFailures ==
  ASSUME RefInv, [Next]_vars, lives # 1, FailureExplained
  PROVE  FailureExplained'
<1>1. \A c, missed, frames : Abandon(c, missed, frames) =>
        \A f \in failures' : f \in failures \/ f.life # 1
  BY DEF Abandon
<1>2. \A f \in failures' : f \in failures \/ f.life # 1
  BY <1>1 DEF Next, vars, history, Start, TimesOut, Misfit, Committed, Signed, LastShare, Route, Expire,
              HolderRestart, Dropped, handle_commit, handle_sign, Restart
<1> QED
  BY <1>2 DEF FailureExplained, Combinations

LEMMA LivesGoOn == RefInv /\ [Next]_vars => lives' = lives \/ (Restart /\ lives' = lives + 1)
BY DEF Next, vars, Start, TimesOut, Misfit, Committed, Signed, LastShare, Route, Expire,
       HolderRestart, Dropped, handle_commit, handle_sign, Restart

LEMMA FallbackStep ==
  ASSUME RefInv, FallbackInv, Lone, [Next]_vars
  PROVE  FallbackInv'
<1>1. lives' \in Nat \ {0} /\ (lives' = 1 => lives = 1 /\ lives' = lives)
  BY LivesGoOn DEF FallbackInv
<1>2. CASE lives # 1
  BY <1>1, <1>2, LaterFailures DEF FallbackInv
<1>3. CASE Restart
  <2>1. failures' = failures /\ lives' = lives + 1
    BY <1>3 DEF Restart
  <2> QED
    BY <1>1, <2>1 DEF FallbackInv, FailureExplained, Combinations
<1>4. ASSUME lives = 1, ~Restart PROVE FallbackInv'
  <2>1. PICK c \in Callers : \A d \in Callers : d = c
    BY DEF Lone
  <2>2. PICK w : w = ceremony[c]
    OBVIOUS
  <2>3. PICK v : v = ceremony'[c]
    OBVIOUS
  <2>4. OneLife(ceremony[c]) /\ OneLife(w) /\ Sessions /\ FailureExplained /\ w \in Ceremony
    BY <1>4, <2>2 DEF FallbackInv, RefInv, TypeOK
  <2>5. SUFFICES OneLife(v)' /\ Sessions' /\ FailureExplained'
    BY <1>1, <2>1, <2>3 DEF FallbackInv
  <2>6. CASE Start(c)
    BY <1>4, <2>3, <2>4, <2>6, StartInOneLife
  <2>7. CASE TimesOut(c)
    BY <1>4, <2>3, <2>4, <2>7, TimesOutInOneLife
  <2>8. CASE Misfit(c)
    BY <1>4, <2>3, <2>4, <2>8, MisfitInOneLife
  <2>9. CASE LastShare(c)
    BY <1>4, <2>3, <2>4, <2>9, LastShareInOneLife
  <2>10. CASE Committed(c)
    <3>1. OneLife(v)' /\ Sessions'
      BY <1>4, <2>3, <2>4, <2>10, CommittedInOneLife
    <3> QED
      BY <2>4, <2>10, <3>1 DEF Committed, history, FailureExplained, Combinations
  <2>11. CASE Signed(c)
    <3>1. OneLife(v)' /\ Sessions'
      BY <1>4, <2>3, <2>4, <2>11, SignedInOneLife
    <3> QED
      BY <2>4, <2>11, <3>1 DEF Signed, history, FailureExplained, Combinations
  <2>12. ASSUME UNCHANGED <<ceremony, failures>>, OneLife(w)' /\ Sessions'
         PROVE  OneLife(v)' /\ Sessions' /\ FailureExplained'
    <3>1. v = w
      BY <2>2, <2>3, <2>12
    <3> QED
      BY <2>4, <2>12, <3>1 DEF FailureExplained, Combinations
  <2>13. ASSUME NEW f \in wire, Route(f) PROVE OneLife(v)' /\ Sessions' /\ FailureExplained'
    <3>1. UNCHANGED <<ceremony, failures>>
      BY <2>13 DEF Route, history
    <3> QED
      BY <2>4, <2>12, <2>13, <3>1, RouteInOneLife
  <2>14. ASSUME NEW h \in Holders, Expire(h) PROVE FALSE
    BY <1>4, <2>4, <2>14, NothingExpires
  <2>15. ASSUME NEW h \in Holders, HolderRestart(h) PROVE OneLife(v)' /\ Sessions' /\ FailureExplained'
    BY <2>3, <2>4, <2>15, HolderRestartInOneLife
  <2>16. ASSUME NEW h \in Holders, NEW f \in Requests(h), Dropped(h, f) \/ handle_commit(h, f) \/ handle_sign(h, f)
         PROVE  OneLife(v)' /\ Sessions' /\ FailureExplained'
    <3>1. UNCHANGED <<ceremony, failures>>
      BY <2>16 DEF Dropped, handle_commit, handle_sign, coordinator, history
    <3>2. OneLife(w)' /\ Sessions'
      BY <2>4, <2>16, DroppedInOneLife, CommitInOneLife, SignInOneLife
    <3> QED
      BY <2>12, <3>1, <3>2
  <2>17. CASE UNCHANGED vars
    <3>1. /\ UNCHANGED <<next_session, ceremony, queue, nonces, guard, wire, delivered, failures, late, lives>>
      BY <2>17 DEF vars, coordinator, holder, relay, history
    <3>2. \A g : Open(g)' = Open(g) /\ (\A s : NonceOf(g, s)' = NonceOf(g, s))
      BY <3>1 DEF Open, NonceOf
    <3>3. \A g \in Holders : /\ Accounted(w, g) => Accounted(w, g)'
                             /\ HolderReady(w, g) => HolderReady(w, g)'
      BY <3>1, <3>2, Elsewhere
    <3>4. (Rounds(w) => Rounds(w)') /\ (TriedInVain(w) => TriedInVain(w)')
      BY <3>1 DEF Rounds, TriedInVain, Heard, Given, Combinations
    <3>5. Rounds(w) /\ WillSign(w) => WillSign(w)'
      BY <3>3, CombinationsAreHolders DEF Rounds, WillSign, ShareFits, PackageOf
    <3>6. OneLife(w)'
      BY <2>4, <3>1, <3>3, <3>4, <3>5 DEF OneLife
    <3>7. Sessions'
      BY <2>4, <3>1 DEF Sessions
    <3> QED
      BY <2>12, <3>1, <3>6, <3>7
  <2> QED
    BY <1>4, <2>1, <2>6, <2>7, <2>8, <2>9, <2>10, <2>11, <2>13, <2>14, <2>15, <2>16, <2>17 DEF Next
<1> QED
  BY <1>2, <1>3, <1>4

LEMMA FallbackInit == Init => FallbackInv
<1> SUFFICES ASSUME Init PROVE FallbackInv
  OBVIOUS
<1>1. Sessions
  BY DEF Init, Sessions
<1>2. \A c \in Callers : OneLife(ceremony[c])
  <2>1. \A h \in Holders : Quiet(h)
    BY DEF Init, Quiet, Open
  <2>2. \A c \in Callers : ceremony[c].msg = NoMessage
    BY IdleOK DEF Init
  <2> QED
    BY <2>1, <2>2 DEF OneLife, Accounted, OneFrame, Quiet
<1> QED
  BY <1>1, <1>2 DEF Init, FallbackInv, FailureExplained

\* FailureExplained (quorum_signer.rs, sign_nostr_event_with_tags): in the first life of the
\* coordinator, the request of a lone caller fails only when every subset of a threshold of the
\* holders has one whose answer was waited for in vain, or who restarted: the fallback goes
\* through all of them, and none without such a holder fails.
THEOREM LoneRequestFallsBack == ASSUME Lone PROVE Spec => []FailureExplained
<1>1. Init => RefInv /\ FallbackInv
  BY RefInit, FallbackInit
<1>2. RefInv /\ FallbackInv /\ [Next]_vars => (RefInv /\ FallbackInv)'
  BY RefStep, FallbackStep
<1>3. FallbackInv => FailureExplained
  BY DEF FallbackInv
<1> QED
  BY <1>1, <1>2, <1>3, PTL DEF Spec
=============================================================================
