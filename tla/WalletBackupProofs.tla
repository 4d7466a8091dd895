------------------------- MODULE WalletBackupProofs -------------------------
(* What WalletBackup promises for any number of hosts, relays, proofs, events  *)
(* and lives: a backup that mirrors the wallet, proofs that are never lost,    *)
(* and a derivation counter that never goes back.                              *)
EXTENDS WalletBackup, FiniteSetTheorems, SequenceTheorems,
  WellFoundedInduction, TLAPS

WalAssumption == QuorumAssumption /\ WalletAssumption

Purse == [counter : Nat, held : SUBSET Nat, inflight : SUBSET Nat, known : SUBSET Nat]
Mint == [signed : SUBSET Nat, spent : SUBSET Nat]
Token == [proofs : SUBSET Nat, del : SUBSET Nat, on : SUBSET Relays]
HeadEvent == [at : Nat, counter : Nat]

Running ==
  [phase : {"down", "restore", "up"}, machine : Machines, lives : Nat,
   used : SUBSET Machines, established : BOOLEAN, recovered : BOOLEAN,
   config_ok : BOOLEAN, read_established : BOOLEAN, mirror : Nat,
   live_ids : SUBSET Nat, dirty : BOOLEAN, candidates : SUBSET Nat, late : SUBSET Nat]
Flushing ==
  [phase : {"idle", "gate", "confirm"}, proofs : SUBSET Nat, del : SUBSET Nat, new : Nat]
Retrying ==
  [phase : {"off", "wait", "restore"}, attempts : Int, candidates : SUBSET Nat,
   token_ok : BOOLEAN]

WalletTypes ==
  /\ mint \in Mint /\ store \in [Machines -> Purse]
  /\ tokens \in Seq(Token) /\ heads \in [Relays -> HeadEvent]
  /\ run \in Running /\ flush \in Flushing /\ retry \in Retrying

(* A purse knows the proofs it derived, and spends only what it knows.         *)
Sound(w) == w \in Purse /\ w.held \subseteq w.known /\ w.known \subseteq 1 .. w.counter

(* What every call on a purse keeps.                                           *)
Grew(w, v, m, n) ==
  /\ Sound(v) /\ n \in Mint
  /\ w.counter <= v.counter /\ w.known \subseteq v.known /\ m.spent \subseteq n.spent

Purse1 == store[run.machine]

(* A derivation takes one index, whether or not it succeeds                    *)
(* (NUT-13: reserve_next, then the mint).                                      *)
LEMMA Derived ==
  ASSUME NEW w, Sound(w), NEW m \in Mint, NEW inputs \in SUBSET Nat,
         NEW o \in Derivations(w, m, inputs)
  PROVE  /\ Grew(w, o.w, m, o.mint) /\ o.ok \in BOOLEAN
         /\ o.w.counter = w.counter + 1
         /\ o.ok => inputs \subseteq o.mint.spent
         /\ ~o.ok => o.w.held = w.held
<1>1. o \in {Outcome(FALSE, Burnt(w), m),
             Outcome(TRUE, Made(w), Signed(w, m, inputs))}
  BY DEF Derivations
<1>2. CASE o = Outcome(FALSE, Burnt(w), m)
  BY <1>2 DEF Outcome, Burnt, Grew, Sound, Purse
<1>3. CASE o = Outcome(TRUE, Made(w), Signed(w, m, inputs))
  <2> DEFINE v == Made(w)
             n == Signed(w, m, inputs)
  <2>1. v \in Purse /\ v.counter = w.counter + 1 /\ v.held = w.held \cup {w.counter + 1}
        /\ v.known = w.known \cup {w.counter + 1}
    <3>0. w.counter + 1 \in Nat /\ w.held \subseteq Nat /\ w.known \subseteq Nat
          /\ w.inflight \subseteq Nat
      BY DEF Sound, Purse
    <3>1. w.held \cup {w.counter + 1} \in SUBSET Nat /\ w.known \cup {w.counter + 1} \in SUBSET Nat
          /\ w.inflight \in SUBSET Nat
      BY <3>0
    <3>2. v = [w EXCEPT !.counter = w.counter + 1, !.held = w.held \cup {w.counter + 1},
                        !.known = w.known \cup {w.counter + 1}]
      BY DEF Made
    <3>3. w \in Purse
      BY DEF Sound
    <3> HIDE DEF v
    <3> QED
      BY <3>0, <3>1, <3>2, <3>3 DEF Purse
  <2>2. n \in Mint /\ n.spent = m.spent \cup inputs
    <3>0. w.counter + 1 \in Nat /\ m.signed \subseteq Nat /\ m.spent \subseteq Nat
      BY DEF Sound, Purse, Mint
    <3>1. m.signed \cup {w.counter + 1} \in SUBSET Nat /\ m.spent \cup inputs \in SUBSET Nat
      BY <3>0
    <3> QED
      BY <3>1 DEF Signed, Mint
  <2>3. o.w = v /\ o.mint = n /\ o.ok = TRUE
    BY <1>3 DEF Outcome
  <2>4. Sound(v)
    BY <2>1 DEF Sound, Purse
  <2> HIDE DEF v, n
  <2>5. Grew(w, v, m, n)
    BY <2>1, <2>2, <2>4 DEF Grew, Sound, Purse
  <2> QED
    BY <2>1, <2>2, <2>3, <2>5
<1> QED
  BY <1>1, <1>2, <1>3

(* A restore that reports success leaves no candidate that is neither known    *)
(* nor spent (restore_from_relay_backup).                                      *)
LEMMA RestoredAll ==
  ASSUME NEW w, Sound(w), NEW m \in Mint, NEW candidates \in SUBSET Nat,
         NEW ready \in BOOLEAN, NEW o \in Restores(w, m, candidates, ready)
  PROVE  /\ Grew(w, o.w, m, o.mint) /\ o.ok \in BOOLEAN
         /\ o.ok => candidates \subseteq o.w.known \cup o.mint.spent
         /\ ~ready => o.w = w /\ o.mint = m
<1> DEFINE novel == candidates \ w.known
           importable == novel \ m.spent
<1>1. CASE o.w = w /\ o.mint = m /\ o.ok \in BOOLEAN
           /\ (o.ok => candidates \subseteq w.known \cup m.spent)
  BY <1>1 DEF Grew, Sound, Purse
<1>2. CASE ready /\ o \in Derivations(w, m, importable)
  <2>1. Grew(w, o.w, m, o.mint) /\ o.ok \in BOOLEAN /\ (o.ok => importable \subseteq o.mint.spent)
    BY <1>2, Derived
  <2> QED
    BY <1>2, <2>1 DEF Grew
<1>3. CASE novel = {} /\ o = Outcome(TRUE, w, m)
  BY <1>1, <1>3 DEF Outcome
<1>4. CASE o = Outcome(FALSE, w, m)
  BY <1>1, <1>4 DEF Outcome
<1>5. CASE importable = {} /\ o = Outcome(TRUE, w, m)
  BY <1>1, <1>5 DEF Outcome
<1> QED
  BY <1>2, <1>3, <1>4, <1>5 DEF Restores

(* A drain derives at most once (strict_drain_unissued_after).                 *)
LEMMA Drained ==
  ASSUME NEW w, Sound(w), NEW m \in Mint, NEW o \in Drains(w, m)
  PROVE  Grew(w, o.w, m, o.mint) /\ o.ok \in BOOLEAN
<1>1. CASE o = Outcome(TRUE, w, m) \/ o = Outcome(FALSE, w, m)
  <2>1. o.w = w /\ o.mint = m /\ (o.ok = TRUE \/ o.ok = FALSE)
    BY <1>1 DEF Outcome
  <2>2. Grew(w, o.w, m, o.mint)
    BY <2>1 DEF Grew, Sound, Purse
  <2> QED
    BY <2>1, <2>2
<1>2. CASE o \in Derivations(w, m, {})
  BY <1>2, Derived
<1> QED
  BY <1>1, <1>2 DEF Drains

(* Two quorums meet in a relay.                                                *)
LEMMA QuorumsMeet ==
  ASSUME WalAssumption, NEW s \in SUBSET Relays, NEW t \in SUBSET Relays,
         Authoritative(s), Durable(t)
  PROVE  s \cap t # {}
<1>1. \A x : Cardinality(x) = Cardinality(x)
  BY DEF Cardinality, Cardinality
<1>2. IsFiniteSet(Relays) /\ read_k + write_k > Cardinality(Relays) /\ read_k \in Nat /\ write_k \in Nat
  BY <1>1
  DEF WalAssumption, QuorumAssumption, quorum_intersection_ok, WalletAssumption,
      IsFiniteSet
<1>3. Cardinality(s) >= read_k /\ Cardinality(t) >= write_k
  BY <1>1 DEF Authoritative, Durable
<1>4. IsFiniteSet(s) /\ IsFiniteSet(t)
  BY <1>2, FS_Subset
<1>5. /\ IsFiniteSet(s \cup t)
      /\ Cardinality(s \cup t) = Cardinality(s) + Cardinality(t) - Cardinality(s \cap t)
  BY <1>4, FS_Union
<1>6. Cardinality(s \cup t) <= Cardinality(Relays)
  BY <1>2, FS_Subset
<1>7. Cardinality({}) = 0
  BY FS_EmptySet
<1>8. Cardinality(s) \in Nat /\ Cardinality(t) \in Nat /\ Cardinality(s \cup t) \in Nat
      /\ Cardinality(Relays) \in Nat
  BY <1>2, <1>4, <1>5, FS_CardinalityType
<1> QED
  BY <1>2, <1>3, <1>5, <1>6, <1>7, <1>8

(* Of finitely many things with a rank one ranks first: the sets of those that *)
(* rank no lower than one of them cannot shrink for ever.                      *)
LEMMA FirstExists ==
  ASSUME NEW S, IsFiniteSet(S), S # {}, NEW rank \in [S -> Int]
  PROVE  \E x \in S : \A y \in S : rank[x] >= rank[y]
<1> DEFINE Above(x) == {y \in S : rank[y] >= rank[x]}
           Shapes == {Above(x) : x \in S}
<1>1. IsWellFoundedOn(StrictSubsetOrdering(S), FiniteSubsetsOf(S))
  BY FS_StrictSubsetOrderingWellFounded
<1>2. FiniteSubsetsOf(S) = SUBSET S
  BY FS_FiniteSubsetsOfFinite
<1>3. Shapes \subseteq FiniteSubsetsOf(S) /\ Shapes # {}
  <2>1. \A x \in S : Above(x) \in SUBSET S
    OBVIOUS
  <2>2. PICK z \in S : TRUE
    OBVIOUS
  <2>3. Above(z) \in Shapes
    BY <2>2
  <2>4. \A A \in Shapes : \E x \in S : A = Above(x)
    OBVIOUS
  <2> HIDE DEF Shapes, Above
  <2> QED
    BY <1>2, <2>1, <2>3, <2>4
<1>4. PICK A \in Shapes : \A B \in Shapes : <<B, A>> \notin StrictSubsetOrdering(S)
  <2> HIDE DEF Shapes
  <2> QED
    BY <1>1, <1>3, WFMin
<1>5. PICK x \in S : A = Above(x)
  OBVIOUS
<1>6. SUFFICES ASSUME NEW y \in S, ~(rank[x] >= rank[y])
               PROVE  FALSE
  BY <1>5
<1>7. Above(y) \in SUBSET S /\ Above(x) \in SUBSET S
  OBVIOUS
<1>8. Above(y) \subseteq Above(x) /\ x \in Above(x) /\ x \notin Above(y)
  <2>1. rank[y] \in Int /\ rank[x] \in Int /\ rank[x] < rank[y] /\ rank[x] >= rank[x]
    BY <1>6
  <2>2. \A z \in S : rank[z] >= rank[y] => rank[z] >= rank[x]
    BY <2>1
  <2>3. Above(y) \subseteq Above(x)
    BY <2>2
  <2>4. x \in Above(x)
    BY <2>1
  <2>5. x \notin Above(y)
    BY <1>6
  <2> QED
    BY <2>3, <2>4, <2>5
<1>9. <<Above(y), Above(x)>> \in StrictSubsetOrdering(S)
  <2> HIDE DEF Above
  <2> QED
    BY <1>7, <1>8 DEF StrictSubsetOrdering
<1> QED
  BY <1>4, <1>5, <1>9

(* The head a read yields is that of a relay it reached, and the newest        *)
(* (engram::lww_head).                                                         *)
LEMMA NewestExists ==
  ASSUME WalAssumption, NEW h \in [Relays -> HeadEvent], NEW s \in SUBSET Relays, s # {}
  PROVE  LET newest == CHOOSE r \in s : \A q \in s : h[r].at >= h[q].at
         IN newest \in s /\ \A q \in s : h[newest].at >= h[q].at
<1> DEFINE age == [r \in s |-> h[r].at]
<1>1. age \in [s -> Int]
  BY DEF HeadEvent
<1>2. IsFiniteSet(s)
  BY FS_Subset DEF WalAssumption, QuorumAssumption
<1>3. \E r \in s : \A q \in s : age[r] >= age[q]
  <2> HIDE DEF age
  <2> QED
    BY <1>1, <1>2, FirstExists
<1>4. \E r \in s : \A q \in s : h[r].at >= h[q].at
  BY <1>3
<1> QED
  BY <1>4

LEMMA HeadIsNewest ==
  ASSUME WalAssumption, WalletTypes, NEW s \in SUBSET Relays
  PROVE  /\ s = {} => lww_head(s) = NoHead
         /\ s # {} => \E r \in s : /\ lww_head(s) = heads[r]
                                   /\ \A q \in s : heads[r].at >= heads[q].at
<1>1. heads \in [Relays -> HeadEvent]
  BY DEF WalletTypes
<1> QED
  BY <1>1, NewestExists DEF lww_head

LEMMA HeadTyped ==
  ASSUME WalAssumption, WalletTypes, NEW s \in SUBSET Relays
  PROVE  lww_head(s) \in HeadEvent
<1>1. CASE s = {}
  BY <1>1, HeadIsNewest DEF HeadEvent, NoHead
<1>2. CASE s # {}
  BY <1>2, HeadIsNewest DEF WalletTypes
<1> QED
  BY <1>1, <1>2

PurseInv == WalletTypes /\ \A m \in Machines : Sound(store[m])

(* What a read of the token plane returns.                                     *)
LEMMA ReadTyped ==
  ASSUME WalletTypes, NEW s \in SUBSET Relays
  PROVE  /\ Served(s) \in SUBSET Nat /\ Served(s) \subseteq DOMAIN tokens
         /\ reconcile_token_set(s) \in SUBSET Nat
<1>1. DOMAIN tokens = 1 .. Len(tokens) /\ Len(tokens) \in Nat
      /\ \A i \in DOMAIN tokens : tokens[i] \in Token
  BY LenProperties DEF WalletTypes
<1> QED
  BY <1>1 DEF Served, live_token_event_ids, reconcile_token_set, Token

LEMMA PurseReplaced ==
  ASSUME PurseInv, NEW m \in Machines, NEW v, Sound(v), store' = [store EXCEPT ![m] = v]
  PROVE  /\ store' \in [Machines -> Purse] /\ \A h \in Machines : Sound(store'[h])
         /\ store'[m] = v /\ \A h \in Machines \ {m} : store'[h] = store[h]
BY DEF PurseInv, WalletTypes, Sound

(* A publication of the counter head reaches the relays that acknowledge it,   *)
(* newer than any head there is (publish_config).                              *)
LEMMA HeadPublished ==
  ASSUME WalAssumption, WalletTypes, NEW counter \in Nat, NEW acks \in SUBSET Relays,
         publish_config(counter, acks)
  PROVE  /\ heads' \in [Relays -> HeadEvent]
         /\ \A r \in Relays \ acks : heads'[r] = heads[r]
         /\ \A r \in acks : heads'[r].counter = counter
         /\ \A r \in acks, q \in Relays : heads'[r].at > heads[q].at
         /\ \A r \in acks, q \in acks : heads'[r] = heads'[q]
<1> DEFINE now == 1 + lww_head(Relays).at
<1>1. lww_head(Relays).at \in Nat
  BY HeadTyped DEF HeadEvent
<1>2. \A q \in Relays : heads[q].at <= lww_head(Relays).at
  BY HeadIsNewest
<1>3. \A q \in Relays : heads[q] \in HeadEvent /\ heads[q].at \in Nat
  BY DEF WalletTypes, HeadEvent
<1>4. now \in Nat /\ \A q \in Relays : now > heads[q].at
  BY <1>1, <1>2, <1>3
<1>5. heads' = [r \in Relays |-> IF r \in acks THEN [at |-> now, counter |-> counter]
                                 ELSE heads[r]]
  BY DEF publish_config
<1> HIDE DEF now
<1>6. [at |-> now, counter |-> counter] \in HeadEvent
  BY <1>4 DEF HeadEvent
<1> QED
  BY <1>3, <1>4, <1>5, <1>6

(* What the boot and the retry do with the purse between them.                 *)
LEMMA RestoreAndDrain ==
  ASSUME PurseInv, NEW candidates \in SUBSET Nat, NEW ready \in BOOLEAN,
         NEW regained \in Restores(Purse1, mint, candidates, ready),
         NEW drained, \/ drained \in Drains(regained.w, regained.mint)
                      \/ ~ready /\ drained = [regained EXCEPT !.ok = FALSE]
  PROVE  /\ Grew(Purse1, drained.w, mint, drained.mint)
         /\ regained.ok \in BOOLEAN
         /\ regained.ok => candidates \subseteq drained.w.known \cup drained.mint.spent
         /\ ~ready => \/ drained.w = Purse1 /\ drained.mint = mint
                      \/ drained \in Drains(regained.w, regained.mint)
<1>1. Sound(Purse1) /\ mint \in Mint
  BY DEF PurseInv, WalletTypes, Running, Purse1
<1>2. /\ Grew(Purse1, regained.w, mint, regained.mint) /\ regained.ok \in BOOLEAN
      /\ regained.ok => candidates \subseteq regained.w.known \cup regained.mint.spent
      /\ ~ready => regained.w = Purse1 /\ regained.mint = mint
  BY <1>1, RestoredAll
<1>3. CASE drained \in Drains(regained.w, regained.mint)
  <2>1. Grew(regained.w, drained.w, regained.mint, drained.mint)
    BY <1>2, <1>3, Drained DEF Grew
  <2> QED
    BY <1>1, <1>2, <1>3, <2>1 DEF Grew, Sound, Purse
<1>4. CASE ~ready /\ drained = [regained EXCEPT !.ok = FALSE]
  <2>1. drained.w = regained.w /\ drained.mint = regained.mint
    BY <1>4 DEF Restores, Outcome
  <2> QED
    BY <1>2, <1>4, <2>1 DEF Grew
<1> QED
  BY <1>3, <1>4

LEMMA Lifted ==
  ASSUME NEW w, Sound(w), NEW c \in Nat, c >= w.counter
  PROVE  Sound([w EXCEPT !.counter = c])
BY DEF Sound, Purse

LEMMA AttemptTyped ==
  ASSUME WalAssumption, WalletTypes
  PROVE  /\ FailedAttempt \in Retrying
         /\ [NoRetry EXCEPT !.phase = "wait", !.attempts = MaxAttempts] \in Retrying
<1>1. MaxAttempts \in Int /\ retry.attempts - 1 \in Int
  BY DEF WalAssumption, WalletAssumption, WalletTypes, Retrying
<1>2. \A n \in Int, ph \in {"off", "wait", "restore"} :
        [NoRetry EXCEPT !.phase = ph, !.attempts = n] \in Retrying
        /\ [NoRetry EXCEPT !.attempts = n, !.phase = ph] \in Retrying
  BY DEF NoRetry, Retrying
<1> QED
  BY <1>1, <1>2 DEF FailedAttempt

LEMMA BootTyped ==
  ASSUME NEW d \in Running, NEW a \in BOOLEAN, NEW b \in BOOLEAN, NEW c \in BOOLEAN,
         NEW n \in Nat, NEW ids \in SUBSET Nat, NEW ps \in SUBSET Nat
  PROVE  [d EXCEPT !.phase = "restore", !.established = a, !.config_ok = b,
                   !.read_established = c, !.mirror = n, !.live_ids = ids,
                   !.dirty = TRUE, !.candidates = ps] \in Running
BY DEF Running

(* What the boot makes of its restore and its drain, and the retry of its.     *)
BootRestored(regained, drained) ==
  LET recovered == run.established
                   /\ Converged(run.read_established, regained, drained)
      mirror == Larger(run.mirror, IF run.established THEN drained.w.counter ELSE 0)
  IN /\ store' = [store EXCEPT ![run.machine] = drained.w]
     /\ mint' = drained.mint
     /\ run' = [run EXCEPT !.phase = "up", !.recovered = recovered,
                  !.mirror = mirror, !.candidates = {}]
     /\ \E acks \in SUBSET Relays :
          IF run.config_ok /\ recovered
            THEN publish_config(mirror, acks)
            ELSE UNCHANGED heads
     /\ retry' = IF recovered THEN NoRetry
                 ELSE [NoRetry EXCEPT !.phase = "wait", !.attempts = MaxAttempts]

RetryRestored(regained, drained) ==
  LET converged == Converged(retry.token_ok, regained, drained)
  IN /\ store' = [store EXCEPT ![run.machine] = drained.w]
     /\ mint' = drained.mint
     /\ run' = [run EXCEPT !.recovered = run.recovered \/ converged,
                  !.mirror = Larger(run.mirror, drained.w.counter),
                  !.late = run.late \cup (drained.w.held \ Purse1.held)]
     /\ retry' = IF converged THEN NoRetry ELSE FailedAttempt

(* A step of the wallet keeps what it stores well formed.                      *)
LEMMA PurseStep ==
  ASSUME WalAssumption, PurseInv, [Next]_vars
  PROVE  PurseInv'
<1>0. /\ run \in Running /\ run.machine \in Machines /\ Sound(Purse1) /\ mint \in Mint
      /\ store \in [Machines -> Purse] /\ \A h \in Machines : Sound(store[h])
      /\ tokens \in Seq(Token) /\ heads \in [Relays -> HeadEvent]
      /\ flush \in Flushing /\ retry \in Retrying
  BY DEF PurseInv, WalletTypes, Running, Purse1
<1>1. NoFlush \in Flushing /\ NoRetry \in Retrying
  BY DEF NoFlush, NoRetry, Flushing, Retrying
<1>2. \A h \in Machines, lives \in Nat, used \in SUBSET Machines :
        Down(h, lives, used) \in Running
  BY DEF Down, Running
<1>3. ASSUME NEW m \in Machines, BootRead(m)
      PROVE  PurseInv'
  <2>1. PICK c \in SUBSET Relays, t \in SUBSET Relays :
          LET local == store[m].counter
              floor == Larger(lww_head(c).counter, local)
              established == should_establish_counter(local > 0, Authoritative(c),
                               floor, Authoritative(t), Served(t) = {})
          IN /\ run' = [Down(m, run.lives + 1, run.used \cup {m}) EXCEPT
                          !.phase = "restore", !.established = established,
                          !.config_ok = Authoritative(c),
                          !.read_established = Authoritative(t), !.mirror = floor,
                          !.live_ids = Served(t), !.dirty = TRUE,
                          !.candidates = reconcile_token_set(t)]
             /\ store' = IF established THEN [store EXCEPT ![m].counter = floor] ELSE store
    BY <1>3 DEF BootRead
  <2> DEFINE floor == Larger(lww_head(c).counter, store[m].counter)
  <2>2. floor \in Nat /\ floor >= store[m].counter
    BY <1>0, HeadTyped DEF Larger, HeadEvent, Purse, PurseInv
  <2>3. store' \in [Machines -> Purse] /\ \A h \in Machines : Sound(store'[h])
    <3>1. Sound([store[m] EXCEPT !.counter = floor])
      BY <1>0, <2>2 DEF Sound, Purse
    <3>2. store' = store \/ store' = [store EXCEPT ![m] = [store[m] EXCEPT !.counter = floor]]
      BY <1>0, <2>1 DEF Purse
    <3> HIDE DEF floor
    <3> QED
      BY <1>0, <3>1, <3>2, PurseReplaced
  <2>4. run' \in Running
    <3>1. Down(m, run.lives + 1, run.used \cup {m}) \in Running
      BY <1>0, <1>2 DEF Running
    <3>2. Served(t) \in SUBSET Nat /\ reconcile_token_set(t) \in SUBSET Nat
      BY ReadTyped DEF PurseInv
    <3> HIDE DEF floor
    <3>3. Authoritative(c) \in BOOLEAN /\ Authoritative(t) \in BOOLEAN
          /\ \A a, b, d, e, f : should_establish_counter(a, b, d, e, f) \in BOOLEAN
      BY DEF Authoritative, should_establish_counter
    <3> DEFINE d == Down(m, run.lives + 1, run.used \cup {m})
               e == should_establish_counter(store[m].counter > 0, Authoritative(c),
                      floor, Authoritative(t), Served(t) = {})
    <3>4. run' = [d EXCEPT !.phase = "restore", !.established = e,
                    !.config_ok = Authoritative(c),
                    !.read_established = Authoritative(t), !.mirror = floor,
                    !.live_ids = Served(t), !.dirty = TRUE,
                    !.candidates = reconcile_token_set(t)]
      BY <2>1 DEF floor
    <3>5. e \in BOOLEAN /\ d \in Running /\ floor \in Nat
      BY <2>2, <3>1, <3>3 DEF floor
    <3> HIDE DEF d, e
    <3> QED
      BY <3>2, <3>3, <3>4, <3>5, BootTyped
  <2> QED
    BY <1>0, <1>3, <2>3, <2>4 DEF BootRead, PurseInv, WalletTypes
<1>4. CASE BootRestore
  <2>0. PICK regained \in Restores(Purse1, mint, run.candidates, run.established) :
          \E drained \in IF run.established THEN Drains(regained.w, regained.mint)
                         ELSE {[regained EXCEPT !.ok = FALSE]} :
             BootRestored(regained, drained)
    BY <1>4 DEF BootRestore, Purse1, BootRestored
  <2>1. PICK drained \in IF run.established THEN Drains(regained.w, regained.mint)
                         ELSE {[regained EXCEPT !.ok = FALSE]} :
             BootRestored(regained, drained)
    BY <2>0
  <2>2. Grew(Purse1, drained.w, mint, drained.mint)
    <3>1. run.candidates \in SUBSET Nat /\ run.established \in BOOLEAN
      BY <1>0 DEF Running
    <3>2. \/ drained \in Drains(regained.w, regained.mint)
          \/ ~run.established /\ drained = [regained EXCEPT !.ok = FALSE]
      BY <2>1, <3>1
    <3> QED
      BY <3>1, <3>2, RestoreAndDrain
  <2> DEFINE mirror == Larger(run.mirror, IF run.established THEN drained.w.counter ELSE 0)
  <2>3. mirror \in Nat
    BY <1>0, <2>2 DEF Larger, Grew, Sound, Purse, Running
  <2>4. store' \in [Machines -> Purse] /\ (\A h \in Machines : Sound(store'[h])) /\ mint' \in Mint
    BY <1>0, <2>1, <2>2, PurseReplaced DEF Grew, BootRestored
  <2> HIDE DEF mirror
  <2>5. heads' \in [Relays -> HeadEvent]
    BY <1>0, <2>1, <2>3, HeadPublished DEF PurseInv, mirror, BootRestored
  <2>6. run' \in Running
    BY <1>0, <2>1, <2>3 DEF Running, mirror, BootRestored
  <2>7. retry' \in Retrying
    BY <1>1, <2>1, AttemptTyped DEF PurseInv, BootRestored
  <2> QED
    BY <1>0, <1>4, <2>4, <2>5, <2>6, <2>7 DEF BootRestore, PurseInv, WalletTypes
<1>5. CASE RetryRead
  <2>1. PICK c \in SUBSET Relays, t \in SUBSET Relays :
          LET floor == lww_head(c).counter
              fresh == ~run.established
                       /\ should_establish_counter(FALSE, Authoritative(c), floor,
                            Authoritative(t), Served(t) = {})
              lifted == Larger(floor, run.mirror)
          IN /\ run' = [run EXCEPT !.read_established = Authoritative(t),
                          !.established = run.established \/ fresh,
                          !.mirror = IF fresh THEN lifted ELSE run.mirror]
             /\ store' = IF fresh
                         THEN [store EXCEPT ![run.machine].counter =
                                              Larger(Purse1.counter, lifted)]
                         ELSE store
             /\ retry' = IF run.established \/ fresh
                         THEN [retry EXCEPT !.phase = "restore",
                                 !.candidates = reconcile_token_set(t),
                                 !.token_ok = Authoritative(t)]
                         ELSE FailedAttempt
    BY <1>5 DEF RetryRead, Purse1
  <2> DEFINE lifted == Larger(lww_head(c).counter, run.mirror)
             top == Larger(Purse1.counter, lifted)
  <2>2. lifted \in Nat /\ top \in Nat /\ top >= Purse1.counter
    BY <1>0, HeadTyped DEF Larger, HeadEvent, Purse, PurseInv, Running, Sound
  <2>3. Authoritative(t) \in BOOLEAN /\ reconcile_token_set(t) \in SUBSET Nat
    BY ReadTyped DEF Authoritative, PurseInv
  <2>4. store' \in [Machines -> Purse] /\ \A h \in Machines : Sound(store'[h])
    <3>1. Sound([Purse1 EXCEPT !.counter = top])
      <4> HIDE DEF top
      <4> QED
        BY <1>0, <2>2, Lifted
    <3>2. store' = store
          \/ store' = [store EXCEPT ![run.machine] = [Purse1 EXCEPT !.counter = top]]
      BY <1>0, <2>1 DEF Purse, Purse1
    <3> HIDE DEF top
    <3> QED
      BY <1>0, <3>1, <3>2, PurseReplaced
  <2> HIDE DEF top, lifted
  <2>5. run' \in Running
    BY <1>0, <2>1, <2>2, <2>3 DEF Running, lifted
  <2>6. retry' \in Retrying
    <3>1. [retry EXCEPT !.phase = "restore", !.candidates = reconcile_token_set(t),
                        !.token_ok = Authoritative(t)] \in Retrying
      BY <1>0, <2>3 DEF Retrying
    <3> QED
      BY <2>1, <3>1, AttemptTyped DEF PurseInv
  <2> QED
    BY <1>0, <1>5, <2>4, <2>5, <2>6 DEF RetryRead, PurseInv, WalletTypes
<1>6. CASE RetryRestore
  <2>0. PICK regained \in Restores(Purse1, mint, retry.candidates, TRUE) :
          \E drained \in Drains(regained.w, regained.mint) :
             RetryRestored(regained, drained)
    BY <1>6 DEF RetryRestore, Purse1, RetryRestored
  <2>1. PICK drained \in Drains(regained.w, regained.mint) :
             RetryRestored(regained, drained)
    BY <2>0
  <2>2. Grew(Purse1, drained.w, mint, drained.mint)
    <3>1. retry.candidates \in SUBSET Nat /\ TRUE \in BOOLEAN
      BY <1>0 DEF Retrying
    <3> QED
      BY <2>1, <3>1, RestoreAndDrain
  <2>3. store' \in [Machines -> Purse] /\ (\A h \in Machines : Sound(store'[h])) /\ mint' \in Mint
    BY <1>0, <2>1, <2>2, PurseReplaced DEF Grew, RetryRestored
  <2>4. Larger(run.mirror, drained.w.counter) \in Nat
        /\ run.late \cup (drained.w.held \ Purse1.held) \in SUBSET Nat
    BY <1>0, <2>2 DEF Larger, Grew, Sound, Purse, Running
  <2>5. run' \in Running
    BY <1>0, <2>1, <2>4 DEF Running, RetryRestored
  <2>6. retry' \in Retrying
    BY <1>0, <1>1, <2>1, AttemptTyped DEF PurseInv, RetryRestored
  <2> QED
    BY <1>0, <1>6, <2>3, <2>5, <2>6 DEF RetryRestore, PurseInv, WalletTypes
<1>7. ASSUME NEW inputs \in SUBSET Nat, Derive(run.machine, inputs, Purse1),
             UNCHANGED <<tokens, heads, flush, retry>>
      PROVE  PurseInv'
  <2>1. PICK o \in Derivations(Purse1, mint, inputs) :
          /\ store' = [store EXCEPT ![run.machine] = o.w] /\ mint' = o.mint
          /\ run' = [run EXCEPT !.mirror = Larger(run.mirror, o.w.counter),
                                !.dirty = run.dirty \/ o.ok]
    BY <1>7 DEF Derive
  <2>2. Grew(Purse1, o.w, mint, o.mint) /\ o.ok \in BOOLEAN
    BY <1>0, Derived
  <2>3. store' \in [Machines -> Purse] /\ (\A h \in Machines : Sound(store'[h])) /\ mint' \in Mint
    BY <1>0, <2>1, <2>2, PurseReplaced DEF Grew
  <2>4. Larger(run.mirror, o.w.counter) \in Nat
    BY <1>0, <2>2 DEF Larger, Grew, Sound, Purse, Running
  <2>5. run' \in Running
    BY <1>0, <2>1, <2>2, <2>4 DEF Running
  <2> QED
    BY <1>0, <1>7, <2>3, <2>5 DEF PurseInv, WalletTypes
<1>8. CASE Receive
  BY <1>7, <1>8 DEF Receive, Purse1
<1>9. ASSUME NEW p \in Indices, mint_send_token(p)
      PROVE  PurseInv'
  <2> DEFINE w == [Purse1 EXCEPT !.held = Purse1.held \ {p},
                                 !.inflight = Purse1.inflight \cup {p}]
  <2>1. store' = [store EXCEPT ![run.machine] = w] /\ p \in Purse1.held
        /\ run' = [run EXCEPT !.dirty = TRUE] /\ UNCHANGED <<mint, tokens, heads, flush, retry>>
    BY <1>0, <1>9 DEF mint_send_token, Purse1
  <2>2. Sound(w)
    BY <1>0, <2>1 DEF Sound, Purse
  <2> HIDE DEF w
  <2>3. run' \in Running
    BY <1>0, <2>1 DEF Running
  <2> QED
    BY <1>0, <2>1, <2>2, <2>3, PurseReplaced DEF PurseInv, WalletTypes
<1>10. ASSUME NEW p \in Indices, revoke_send(p)
       PROVE  PurseInv'
  BY <1>7, <1>0, <1>10 DEF revoke_send, Purse1, Sound, Purse
<1>11. ASSUME NEW p \in Indices, Redeem(p)
       PROVE  PurseInv'
  <2>1. p \in Nat
    BY <1>0, <1>11 DEF Redeem, Purse
  <2>2. mint' \in Mint
    BY <1>0, <1>11, <2>1 DEF Redeem, Mint
  <2> QED
    BY <1>0, <1>11, <2>2 DEF Redeem, PurseInv, WalletTypes
<1>12. CASE FlushBegin
  <2>1. flush' \in Flushing
    BY <1>0, <1>12 DEF FlushBegin, Flushing, Running, Sound, Purse, Purse1
  <2>2. run' \in Running
    BY <1>0, <1>12 DEF FlushBegin, Running
  <2> QED
    BY <1>0, <1>12, <2>1, <2>2 DEF FlushBegin, PurseInv, WalletTypes
<1>13. CASE RolloverPublish
  <2>1. run' \in Running
    BY <1>0, <1>13 DEF RolloverPublish, Rearm, Running
  <2>2. tokens' \in Seq(Token)
    <3>1. \A on \in SUBSET Relays : [proofs |-> flush.proofs, del |-> flush.del, on |-> on] \in Token
      BY <1>0 DEF Flushing, Token
    <3>2. tokens' = tokens \/ \E on \in SUBSET Relays :
            tokens' = Append(tokens, [proofs |-> flush.proofs, del |-> flush.del, on |-> on])
      BY <1>13 DEF RolloverPublish
    <3>3. ASSUME NEW e \in Token
          PROVE  Append(tokens, e) \in Seq(Token)
      BY <1>0
    <3> QED
      BY <1>0, <3>1, <3>2, <3>3
  <2>3. flush' \in Flushing
    <3>1. flush' = NoFlush
          \/ \E n \in {0, Len(tokens) + 1} :
               flush' = [flush EXCEPT !.phase = "confirm", !.proofs = {}, !.new = n]
      BY <1>13 DEF RolloverPublish, Rearm
    <3>2. Len(tokens) \in Nat
      BY <1>0, LenProperties
    <3> QED
      <4>1. \A n \in Nat :
              [flush EXCEPT !.phase = "confirm", !.proofs = {}, !.new = n] \in Flushing
        BY <1>0 DEF Flushing
      <4>2. 0 \in Nat /\ Len(tokens) + 1 \in Nat
        BY <3>2
      <4> QED
        BY <1>1, <3>1, <4>1, <4>2, Zenon
  <2> QED
    BY <1>0, <1>13, <2>1, <2>2, <2>3 DEF RolloverPublish, PurseInv, WalletTypes
<1>14. CASE RolloverConfirm
  <2>1. run' \in Running
    <3>1. [run EXCEPT !.live_ids = {flush.new}] \in Running
      BY <1>0 DEF Running, Flushing
    <3>2. [run EXCEPT !.dirty = TRUE] \in Running
      BY <1>0 DEF Running
    <3> QED
      BY <1>14, <3>1, <3>2 DEF RolloverConfirm, Rearm
  <2>2. flush' \in Flushing
    BY <1>1, <1>14 DEF RolloverConfirm, Rearm
  <2>3. ASSUME NEW ids, NEW relays
        PROVE  Pruned(ids, relays) \in Seq(Token)
    <3>1. DOMAIN tokens = 1 .. Len(tokens) /\ Len(tokens) \in Nat
          /\ \A i \in DOMAIN tokens : tokens[i] \in Token
      BY <1>0, LenProperties
    <3>2. Forgotten \in Token
      BY DEF Forgotten, Token
    <3>3. \A i \in DOMAIN tokens : [tokens[i] EXCEPT !.on = tokens[i].on \ relays] \in Token
      BY <3>1 DEF Token
    <3>4. \A i \in 1 .. Len(tokens) : Pruned(ids, relays)[i] \in Token
      BY <3>1, <3>2, <3>3 DEF Pruned
    <3>5. Pruned(ids, relays) = [i \in 1 .. Len(tokens) |-> Pruned(ids, relays)[i]]
      BY <3>1 DEF Pruned
    <3>6. Pruned(ids, relays) \in [1 .. Len(tokens) -> Token]
      BY <3>4, <3>5
    <3> QED
      BY <3>1, <3>6, IsASeq
  <2>4. tokens' \in Seq(Token)
    BY <1>0, <1>14, <2>3 DEF RolloverConfirm
  <2> QED
    BY <1>0, <1>14, <2>1, <2>2, <2>4 DEF RolloverConfirm, PurseInv, WalletTypes
<1>15. CASE Stopped /\ heads' \in [Relays -> HeadEvent]
  <2>1. run' \in Running
    BY <1>0, <1>2, <1>15 DEF Stopped, Running
  <2> QED
    BY <1>0, <1>1, <1>15, <2>1 DEF Stopped, PurseInv, WalletTypes
<1>16. CASE flush_estate
  <2>1. heads' \in [Relays -> HeadEvent]
    BY <1>0, <1>16, HeadPublished DEF flush_estate, PurseInv, Running
  <2> QED
    BY <1>15, <1>16, <2>1 DEF flush_estate
<1>17. CASE Crash
  BY <1>0, <1>15, <1>17 DEF Crash
<1>18. CASE UNCHANGED vars
  BY <1>18 DEF vars, PurseInv, WalletTypes
<1> QED
  BY <1>3, <1>4, <1>5, <1>6, <1>8, <1>9, <1>10, <1>11, <1>12, <1>13, <1>14, <1>16, <1>17,
     <1>18 DEF Next

(* What the steps of the wallet do, field by field.                            *)
LEMMA BootFacts ==
  ASSUME WalAssumption, PurseInv, NEW m \in Machines, BootRead(m)
  PROVE  \E c \in SUBSET Relays, t \in SUBSET Relays :
           LET floor == Larger(lww_head(c).counter, store[m].counter) IN
           /\ run.phase = "down" /\ MayRun(m)
           /\ run'.phase = "restore" /\ run'.machine = m /\ run'.used = run.used \cup {m}
           /\ ~run'.recovered /\ run'.dirty /\ run'.mirror = floor
           /\ run'.established =
                should_establish_counter(store[m].counter > 0, Authoritative(c),
                  floor, Authoritative(t), Served(t) = {})
           /\ run'.read_established = Authoritative(t)
           /\ run'.live_ids = Served(t)
           /\ run'.candidates = reconcile_token_set(t)
           /\ store'[m].counter = IF run'.established THEN floor ELSE store[m].counter
           /\ store'[m].known = store[m].known
           /\ \A h \in Machines \ {m} : store'[h] = store[h]
           /\ UNCHANGED <<mint, tokens, heads, flush, retry>>
<1>1. PICK c \in SUBSET Relays, t \in SUBSET Relays :
        LET local == store[m].counter
            floor == Larger(lww_head(c).counter, local)
            established == should_establish_counter(local > 0, Authoritative(c),
                             floor, Authoritative(t), Served(t) = {})
        IN /\ run' = [Down(m, run.lives + 1, run.used \cup {m}) EXCEPT
                        !.phase = "restore", !.established = established,
                        !.config_ok = Authoritative(c),
                        !.read_established = Authoritative(t), !.mirror = floor,
                        !.live_ids = Served(t), !.dirty = TRUE,
                        !.candidates = reconcile_token_set(t)]
           /\ store' = IF established THEN [store EXCEPT ![m].counter = floor] ELSE store
  BY DEF BootRead
<1> DEFINE floor == Larger(lww_head(c).counter, store[m].counter)
           e == should_establish_counter(store[m].counter > 0, Authoritative(c),
                  floor, Authoritative(t), Served(t) = {})
<1>2. store \in [Machines -> Purse]
  BY DEF PurseInv, WalletTypes
<1>3. /\ run'.phase = "restore" /\ run'.machine = m /\ run'.used = run.used \cup {m}
      /\ run'.recovered = FALSE /\ run'.dirty = TRUE /\ run'.mirror = floor
      /\ run'.established = e /\ run'.read_established = Authoritative(t)
      /\ run'.live_ids = Served(t)
      /\ run'.candidates = reconcile_token_set(t)
  BY <1>1 DEF Down
<1>4. store' = IF e THEN [store EXCEPT ![m].counter = floor] ELSE store
  BY <1>1
<1>5. /\ run.phase = "down" /\ MayRun(m) /\ UNCHANGED <<mint, tokens, heads, flush, retry>>
  BY DEF BootRead
<1> HIDE DEF floor, e
<1>6. /\ store'[m].counter = IF e THEN floor ELSE store[m].counter
      /\ store'[m].known = store[m].known
      /\ \A h \in Machines \ {m} : store'[h] = store[h]
  BY <1>2, <1>4 DEF Purse
<1> QED
  BY <1>3, <1>5, <1>6 DEF floor, e

LEMMA RestoreFacts ==
  ASSUME WalAssumption, PurseInv, BootRestore
  PROVE  /\ run.phase = "restore" /\ run'.phase = "up"
         /\ run'.machine = run.machine /\ run'.used = run.used
         /\ run'.established = run.established /\ run'.live_ids = run.live_ids
         /\ run'.dirty = run.dirty
         /\ run'.mirror = Larger(run.mirror, IF run.established
                                                   THEN store'[run.machine].counter ELSE 0)
         /\ Grew(Purse1, store'[run.machine], mint, mint')
         /\ \A h \in Machines \ {run.machine} : store'[h] = store[h]
         /\ ~run.established => store' = store /\ mint' = mint
         /\ run'.recovered =>
              /\ run.established /\ run.read_established
              /\ run.candidates \subseteq store'[run.machine].known \cup mint'.spent
         /\ \/ heads' = heads
            \/ run'.recovered /\ \E acks \in SUBSET Relays : publish_config(run'.mirror, acks)
         /\ retry'.phase \in {"off", "wait"} /\ (run'.recovered => retry'.phase = "off")
         /\ UNCHANGED <<tokens, flush>>
<1>0. /\ run \in Running /\ run.machine \in Machines /\ Sound(Purse1)
      /\ store \in [Machines -> Purse]
      /\ run.candidates \in SUBSET Nat /\ run.established \in BOOLEAN
  BY DEF PurseInv, WalletTypes, Running, Purse1
<1>1. PICK regained \in Restores(Purse1, mint, run.candidates, run.established) :
        \E drained \in IF run.established THEN Drains(regained.w, regained.mint)
                       ELSE {[regained EXCEPT !.ok = FALSE]} :
           BootRestored(regained, drained)
  BY DEF BootRestore, Purse1, BootRestored
<1>2. PICK drained \in IF run.established THEN Drains(regained.w, regained.mint)
                       ELSE {[regained EXCEPT !.ok = FALSE]} :
           BootRestored(regained, drained)
  BY <1>1
<1>3. /\ Grew(Purse1, drained.w, mint, drained.mint) /\ regained.ok \in BOOLEAN
      /\ regained.ok => run.candidates \subseteq drained.w.known \cup drained.mint.spent
  BY <1>0, <1>2, RestoreAndDrain
<1>4. ~run.established => drained.w = Purse1 /\ drained.mint = mint
  <2> SUFFICES ASSUME ~run.established
               PROVE  drained.w = Purse1 /\ drained.mint = mint
    OBVIOUS
  <2>1. regained.w = Purse1 /\ regained.mint = mint
    BY <1>0, RestoredAll DEF PurseInv, WalletTypes
  <2>2. drained = [regained EXCEPT !.ok = FALSE]
    BY <1>0, <1>2
  <2>3. drained.w = regained.w /\ drained.mint = regained.mint
    BY <2>2 DEF Restores, Outcome
  <2> QED
    BY <2>1, <2>3
<1> DEFINE recovered == run.established
                        /\ Converged(run.read_established, regained, drained)
           mirror == Larger(run.mirror, IF run.established THEN drained.w.counter ELSE 0)
<1>5. /\ store' = [store EXCEPT ![run.machine] = drained.w] /\ mint' = drained.mint
      /\ run' = [run EXCEPT !.phase = "up", !.recovered = recovered,
                   !.mirror = mirror, !.candidates = {}]
      /\ \E acks \in SUBSET Relays :
           IF run.config_ok /\ recovered THEN publish_config(mirror, acks)
           ELSE UNCHANGED heads
      /\ retry' = IF recovered THEN NoRetry
                  ELSE [NoRetry EXCEPT !.phase = "wait", !.attempts = MaxAttempts]
  BY <1>2 DEF BootRestored
<1>6. recovered => run.established /\ run.read_established /\ regained.ok
  BY DEF Converged
<1> HIDE DEF recovered
<1>7. /\ store'[run.machine] = drained.w
      /\ \A h \in Machines \ {run.machine} : store'[h] = store[h]
      /\ drained.w = Purse1 => store' = store
  BY <1>0, <1>5 DEF Purse1
<1>8. run'.mirror = mirror
  <2> HIDE DEF mirror
  <2> QED
    BY <1>0, <1>5 DEF Running
<1>9. /\ run'.phase = "up" /\ run'.machine = run.machine /\ run'.used = run.used
      /\ run'.established = run.established /\ run'.live_ids = run.live_ids
      /\ run'.dirty = run.dirty /\ run'.recovered = recovered
  <2> HIDE DEF mirror
  <2> QED
    BY <1>0, <1>5 DEF Running
<1>10. retry'.phase \in {"off", "wait"} /\ (recovered => retry'.phase = "off")
  BY <1>5 DEF NoRetry
<1>11. run.phase = "restore" /\ UNCHANGED <<tokens, flush>>
  BY DEF BootRestore
<1>12. heads' = heads \/ (recovered /\ \E acks \in SUBSET Relays : publish_config(mirror, acks))
  <2> HIDE DEF mirror
  <2> QED
    BY <1>5
<1> QED
  BY <1>3, <1>4, <1>5, <1>6, <1>7, <1>8, <1>9, <1>10, <1>11, <1>12

LEMMA RetryReadFacts ==
  ASSUME WalAssumption, PurseInv, RetryRead
  PROVE  \E c \in SUBSET Relays, t \in SUBSET Relays :
           LET floor == lww_head(c).counter
               fresh == ~run.established
                        /\ should_establish_counter(FALSE, Authoritative(c), floor,
                             Authoritative(t), Served(t) = {})
               lifted == Larger(floor, run.mirror)
           IN /\ run.phase = "up" /\ retry.phase = "wait" /\ run'.phase = "up"
              /\ run'.machine = run.machine /\ run'.used = run.used
              /\ run'.recovered = run.recovered /\ run'.live_ids = run.live_ids
              /\ run'.dirty = run.dirty /\ run'.late = run.late
              /\ run'.established = (run.established \/ fresh)
              /\ run'.mirror = IF fresh THEN lifted ELSE run.mirror
              /\ store'[run.machine].counter =
                   IF fresh THEN Larger(Purse1.counter, lifted) ELSE Purse1.counter
              /\ store'[run.machine].known = Purse1.known
              /\ store'[run.machine].held = Purse1.held
              /\ \A h \in Machines \ {run.machine} : store'[h] = store[h]
              /\ retry'.phase = "restore" =>
                   /\ run'.established
                   /\ retry'.candidates = reconcile_token_set(t)
                   /\ retry'.token_ok = Authoritative(t)
              /\ UNCHANGED <<mint, tokens, heads, flush>>
<1>0. /\ run \in Running /\ store \in [Machines -> Purse] /\ run.machine \in Machines
      /\ retry \in Retrying
  BY DEF PurseInv, WalletTypes, Running
<1>1. PICK c \in SUBSET Relays, t \in SUBSET Relays :
        LET floor == lww_head(c).counter
            fresh == ~run.established
                     /\ should_establish_counter(FALSE, Authoritative(c), floor,
                          Authoritative(t), Served(t) = {})
            lifted == Larger(floor, run.mirror)
        IN /\ run' = [run EXCEPT !.read_established = Authoritative(t),
                        !.established = run.established \/ fresh,
                        !.mirror = IF fresh THEN lifted ELSE run.mirror]
           /\ store' = IF fresh
                       THEN [store EXCEPT ![run.machine].counter =
                                            Larger(Purse1.counter, lifted)]
                       ELSE store
           /\ retry' = IF run.established \/ fresh
                       THEN [retry EXCEPT !.phase = "restore",
                               !.candidates = reconcile_token_set(t),
                               !.token_ok = Authoritative(t)]
                       ELSE FailedAttempt
  BY DEF RetryRead, Purse1
<1> DEFINE fresh == ~run.established
                    /\ should_establish_counter(FALSE, Authoritative(c),
                         lww_head(c).counter, Authoritative(t), Served(t) = {})
           lifted == Larger(lww_head(c).counter, run.mirror)
           top == Larger(Purse1.counter, lifted)
<1>2. /\ run' = [run EXCEPT !.read_established = Authoritative(t),
                   !.established = run.established \/ fresh,
                   !.mirror = IF fresh THEN lifted ELSE run.mirror]
      /\ store' = IF fresh THEN [store EXCEPT ![run.machine].counter = top] ELSE store
      /\ retry' = IF run.established \/ fresh
                  THEN [retry EXCEPT !.phase = "restore",
                          !.candidates = reconcile_token_set(t),
                          !.token_ok = Authoritative(t)]
                  ELSE FailedAttempt
  BY <1>1
<1> HIDE DEF fresh, lifted, top
<1>3. /\ run'.phase = run.phase /\ run'.machine = run.machine /\ run'.used = run.used
      /\ run'.recovered = run.recovered /\ run'.live_ids = run.live_ids
      /\ run'.dirty = run.dirty /\ run'.late = run.late
      /\ run'.established = (run.established \/ fresh)
      /\ run'.mirror = IF fresh THEN lifted ELSE run.mirror
  BY <1>0, <1>2 DEF Running
<1>4. /\ store'[run.machine].counter = IF fresh THEN top ELSE Purse1.counter
      /\ store'[run.machine].known = Purse1.known
      /\ store'[run.machine].held = Purse1.held
      /\ \A h \in Machines \ {run.machine} : store'[h] = store[h]
  BY <1>0, <1>2 DEF Purse, Purse1
<1>5. retry'.phase = "restore" =>
        /\ run.established \/ fresh
        /\ retry'.candidates = reconcile_token_set(t)
        /\ retry'.token_ok = Authoritative(t)
  BY <1>0, <1>2 DEF Retrying, FailedAttempt, NoRetry
<1>6. /\ run.phase = "up" /\ retry.phase = "wait" /\ UNCHANGED <<mint, tokens, heads, flush>>
  BY DEF RetryRead
<1> QED
  BY <1>3, <1>4, <1>5, <1>6 DEF fresh, lifted, top

LEMMA RetryRestoreFacts ==
  ASSUME WalAssumption, PurseInv, RetryRestore
  PROVE  /\ run.phase = "up" /\ retry.phase = "restore" /\ run'.phase = "up"
         /\ run'.machine = run.machine /\ run'.used = run.used
         /\ run'.established = run.established /\ run'.live_ids = run.live_ids
         /\ run'.dirty = run.dirty
         /\ run'.mirror = Larger(run.mirror, store'[run.machine].counter)
         /\ Grew(Purse1, store'[run.machine], mint, mint')
         /\ \A h \in Machines \ {run.machine} : store'[h] = store[h]
         /\ run'.recovered => \/ run.recovered
                              \/ retry.token_ok
                                 /\ retry.candidates \subseteq store'[run.machine].known \cup mint'.spent
         /\ run.recovered => run'.recovered
         /\ store'[run.machine].held \ run'.late \subseteq Purse1.held \ run.late
         /\ retry'.phase \in {"off", "wait"}
         /\ run'.recovered => run.recovered \/ retry'.phase = "off"
         /\ UNCHANGED <<tokens, heads, flush>>
<1>0. /\ run \in Running /\ run.machine \in Machines /\ Sound(Purse1)
      /\ store \in [Machines -> Purse] /\ TRUE \in BOOLEAN
      /\ retry.candidates \in SUBSET Nat
  BY DEF PurseInv, WalletTypes, Running, Purse1, Retrying
<1>1. PICK regained \in Restores(Purse1, mint, retry.candidates, TRUE) :
        \E drained \in Drains(regained.w, regained.mint) :
           RetryRestored(regained, drained)
  BY DEF RetryRestore, Purse1, RetryRestored
<1>2. PICK drained \in Drains(regained.w, regained.mint) :
           RetryRestored(regained, drained)
  BY <1>1
<1>3. /\ Grew(Purse1, drained.w, mint, drained.mint) /\ regained.ok \in BOOLEAN
      /\ regained.ok => retry.candidates \subseteq drained.w.known \cup drained.mint.spent
  BY <1>0, <1>2, RestoreAndDrain
<1> DEFINE converged == Converged(retry.token_ok, regained, drained)
<1>4. /\ store' = [store EXCEPT ![run.machine] = drained.w] /\ mint' = drained.mint
      /\ run' = [run EXCEPT !.recovered = run.recovered \/ converged,
                   !.mirror = Larger(run.mirror, drained.w.counter),
                   !.late = run.late \cup (drained.w.held \ Purse1.held)]
      /\ retry' = IF converged THEN NoRetry ELSE FailedAttempt
  BY <1>2 DEF RetryRestored
<1>5. converged => retry.token_ok /\ regained.ok
  BY DEF Converged
<1> HIDE DEF converged
<1>6. /\ store'[run.machine] = drained.w
      /\ \A h \in Machines \ {run.machine} : store'[h] = store[h]
  BY <1>0, <1>4
<1>7. /\ run'.phase = run.phase /\ run'.machine = run.machine /\ run'.used = run.used
      /\ run'.established = run.established /\ run'.live_ids = run.live_ids
      /\ run'.dirty = run.dirty /\ run'.recovered = (run.recovered \/ converged)
      /\ run'.mirror = Larger(run.mirror, drained.w.counter)
      /\ run'.late = run.late \cup (drained.w.held \ Purse1.held)
  BY <1>0, <1>4 DEF Running
<1>8. retry'.phase \in {"off", "wait"} /\ (converged => retry'.phase = "off")
  BY <1>4 DEF FailedAttempt, NoRetry
<1>9. run.phase = "up" /\ retry.phase = "restore" /\ UNCHANGED <<tokens, heads, flush>>
  BY DEF RetryRestore
<1> QED
  BY <1>3, <1>4, <1>5, <1>6, <1>7, <1>8, <1>9

(* The spend path: redeem_foreign and revoke_send derive, mint_send_token      *)
(* sets a proof aside; a change of the purse marks the backup dirty.           *)
LEMMA SpendFacts ==
  ASSUME WalAssumption, PurseInv,
         \/ Receive
         \/ \E p \in Indices : mint_send_token(p) \/ revoke_send(p)
  PROVE  /\ run.phase = "up" /\ run'.phase = "up"
         /\ run'.machine = run.machine /\ run'.used = run.used
         /\ run'.established = run.established /\ run'.live_ids = run.live_ids
         /\ run'.recovered = run.recovered /\ run'.late = run.late
         /\ Grew(Purse1, store'[run.machine], mint, mint')
         /\ \A h \in Machines \ {run.machine} : store'[h] = store[h]
         /\ \/ run.established /\ run'.mirror = Larger(run.mirror, store'[run.machine].counter)
            \/ run'.mirror = run.mirror /\ store'[run.machine].counter = Purse1.counter
         /\ run.dirty => run'.dirty
         /\ run'.dirty \/ store'[run.machine].held = Purse1.held
         /\ UNCHANGED <<tokens, heads, flush, retry>>
<1>0. /\ run \in Running /\ run.machine \in Machines /\ Sound(Purse1) /\ mint \in Mint
      /\ store \in [Machines -> Purse]
  BY DEF PurseInv, WalletTypes, Running, Purse1
<1>1. ASSUME NEW inputs \in SUBSET Nat, Derive(run.machine, inputs, Purse1),
             run.phase = "up", run.established, UNCHANGED <<tokens, heads, flush, retry>>
      PROVE  /\ run'.phase = "up" /\ run'.machine = run.machine /\ run'.used = run.used
             /\ run'.established = run.established /\ run'.live_ids = run.live_ids
             /\ run'.recovered = run.recovered /\ run'.late = run.late
             /\ Grew(Purse1, store'[run.machine], mint, mint')
             /\ \A h \in Machines \ {run.machine} : store'[h] = store[h]
             /\ run'.mirror = Larger(run.mirror, store'[run.machine].counter)
             /\ run.dirty => run'.dirty
             /\ run'.dirty \/ store'[run.machine].held = Purse1.held
  <2>1. PICK o \in Derivations(Purse1, mint, inputs) :
          /\ store' = [store EXCEPT ![run.machine] = o.w] /\ mint' = o.mint
          /\ run' = [run EXCEPT !.mirror = Larger(run.mirror, o.w.counter),
                                !.dirty = run.dirty \/ o.ok]
    BY <1>1 DEF Derive
  <2>2. Grew(Purse1, o.w, mint, o.mint) /\ o.ok \in BOOLEAN /\ (~o.ok => o.w.held = Purse1.held)
    BY <1>0, Derived
  <2>3. store'[run.machine] = o.w /\ \A h \in Machines \ {run.machine} : store'[h] = store[h]
    BY <1>0, <2>1
  <2>4. /\ run'.phase = run.phase /\ run'.machine = run.machine /\ run'.used = run.used
        /\ run'.established = run.established /\ run'.live_ids = run.live_ids
        /\ run'.recovered = run.recovered /\ run'.late = run.late
        /\ run'.mirror = Larger(run.mirror, o.w.counter)
        /\ run'.dirty = (run.dirty \/ o.ok)
    BY <1>0, <2>1 DEF Running
  <2> QED
    BY <1>1, <2>1, <2>2, <2>3, <2>4
<1>2. ASSUME Receive
      PROVE  /\ {} \in SUBSET Nat /\ Derive(run.machine, {}, Purse1)
             /\ run.phase = "up" /\ run.established /\ UNCHANGED <<tokens, heads, flush, retry>>
  BY <1>2 DEF Receive, Purse1
<1>3. ASSUME NEW p \in Indices, revoke_send(p)
      PROVE  /\ {p} \in SUBSET Nat /\ Derive(run.machine, {p}, Purse1)
             /\ run.phase = "up" /\ run.established /\ UNCHANGED <<tokens, heads, flush, retry>>
  BY <1>0, <1>3 DEF revoke_send, Purse1, Sound, Purse
<1>4. ASSUME NEW p \in Indices, mint_send_token(p)
      PROVE  /\ run'.phase = "up" /\ run'.machine = run.machine /\ run'.used = run.used
             /\ run'.established = run.established /\ run'.live_ids = run.live_ids
             /\ run'.recovered = run.recovered /\ run'.late = run.late
             /\ Grew(Purse1, store'[run.machine], mint, mint')
             /\ \A h \in Machines \ {run.machine} : store'[h] = store[h]
             /\ run'.mirror = run.mirror /\ store'[run.machine].counter = Purse1.counter
             /\ run'.dirty
             /\ run.phase = "up" /\ UNCHANGED <<tokens, heads, flush, retry>>
  <2> DEFINE w == [Purse1 EXCEPT !.held = Purse1.held \ {p},
                                 !.inflight = Purse1.inflight \cup {p}]
  <2>1. store' = [store EXCEPT ![run.machine] = w] /\ p \in Purse1.held /\ run.phase = "up"
        /\ run' = [run EXCEPT !.dirty = TRUE] /\ UNCHANGED <<mint, tokens, heads, flush, retry>>
    BY <1>0, <1>4 DEF mint_send_token, Purse1
  <2>2. Sound(w) /\ w.counter = Purse1.counter /\ w.known = Purse1.known
    BY <1>0, <2>1 DEF Sound, Purse
  <2> HIDE DEF w
  <2>3. /\ run'.phase = run.phase /\ run'.machine = run.machine /\ run'.used = run.used
        /\ run'.established = run.established /\ run'.live_ids = run.live_ids
        /\ run'.recovered = run.recovered /\ run'.late = run.late
        /\ run'.mirror = run.mirror /\ run'.dirty = TRUE
    BY <1>0, <2>1 DEF Running
  <2>4. store'[run.machine] = w /\ \A h \in Machines \ {run.machine} : store'[h] = store[h]
    BY <1>0, <2>1
  <2> QED
    BY <1>0, <2>1, <2>2, <2>3, <2>4 DEF Grew, Sound, Purse
<1> QED
  BY <1>1, <1>2, <1>3, <1>4

(* The flusher: what it takes, publishes and commits.                          *)
LEMMA FlushBeginFacts ==
  ASSUME PurseInv, FlushBegin
  PROVE  /\ run.phase = "up" /\ run'.phase = "up" /\ flush.phase = "idle"
         /\ run'.machine = run.machine /\ run'.used = run.used
         /\ run'.established = run.established /\ run'.live_ids = run.live_ids
         /\ run'.recovered = run.recovered /\ run'.late = run.late
         /\ run'.mirror = run.mirror
         /\ flush'.phase = "gate" /\ flush'.del = run.live_ids /\ flush'.proofs = Purse1.held
         /\ UNCHANGED <<mint, store, tokens, heads, retry>>
<1>1. run \in Running
  BY DEF PurseInv, WalletTypes
<1>2. /\ run'.phase = run.phase /\ run'.machine = run.machine /\ run'.used = run.used
      /\ run'.established = run.established /\ run'.live_ids = run.live_ids
      /\ run'.recovered = run.recovered /\ run'.late = run.late /\ run'.mirror = run.mirror
  BY <1>1 DEF FlushBegin, Running
<1> QED
  BY <1>2 DEF FlushBegin, Purse1

LEMMA PublishFacts ==
  ASSUME PurseInv, RolloverPublish
  PROVE  /\ flush.phase = "gate"
         /\ run'.phase = run.phase /\ run'.machine = run.machine /\ run'.used = run.used
         /\ run'.established = run.established /\ run'.live_ids = run.live_ids
         /\ run'.recovered = run.recovered /\ run'.late = run.late
         /\ run'.mirror = run.mirror /\ (run.dirty => run'.dirty)
         /\ \/ tokens' = tokens /\ flush' = NoFlush /\ run'.dirty
            \/ /\ run.recovered
               /\ \E kept \in SUBSET Relays :
                    /\ tokens' = IF kept = {} THEN tokens
                                 ELSE Append(tokens, [proofs |-> flush.proofs,
                                                      del |-> flush.del, on |-> kept])
                    /\ \/ flush' = NoFlush /\ run'.dirty
                       \/ /\ flush'.phase = "confirm" /\ flush'.del = flush.del
                          /\ flush'.new = IF kept = {} THEN 0 ELSE Len(tokens) + 1
         /\ UNCHANGED <<mint, store, heads, retry>>
<1>1. run \in Running /\ flush \in Flushing
  BY DEF PurseInv, WalletTypes
<1>2. run' = run \/ run' = [run EXCEPT !.dirty = TRUE]
  BY DEF RolloverPublish, Rearm
<1>3. /\ run'.phase = run.phase /\ run'.machine = run.machine /\ run'.used = run.used
      /\ run'.established = run.established /\ run'.live_ids = run.live_ids
      /\ run'.recovered = run.recovered /\ run'.late = run.late
      /\ run'.mirror = run.mirror /\ (run.dirty => run'.dirty)
  BY <1>1, <1>2 DEF Running
<1>4. run' = [run EXCEPT !.dirty = TRUE] => run'.dirty
  BY <1>1 DEF Running
<1>5. flush.phase = "gate" /\ UNCHANGED <<mint, store, heads, retry>>
  BY DEF RolloverPublish
<1>6. CASE ~MayRollover /\ Rearm /\ UNCHANGED <<tokens, faults>>
  BY <1>3, <1>4, <1>5, <1>6 DEF Rearm
<1>7. CASE MayRollover
  <2>1. PICK acks \in SUBSET Relays : \E kept \in {acks, {}} :
          /\ tokens' = IF kept = {} THEN tokens
                       ELSE Append(tokens, [proofs |-> flush.proofs,
                                            del |-> flush.del, on |-> kept])
          /\ \/ /\ flush' = [flush EXCEPT !.phase = "confirm", !.proofs = {},
                               !.new = IF kept = {} THEN 0 ELSE Len(tokens) + 1]
             \/ Rearm
    BY <1>7 DEF RolloverPublish
  <2>2. PICK kept \in {acks, {}} :
          /\ tokens' = IF kept = {} THEN tokens
                       ELSE Append(tokens, [proofs |-> flush.proofs,
                                            del |-> flush.del, on |-> kept])
          /\ \/ /\ flush' = [flush EXCEPT !.phase = "confirm", !.proofs = {},
                               !.new = IF kept = {} THEN 0 ELSE Len(tokens) + 1]
             \/ Rearm
    BY <2>1
  <2>3. kept \in SUBSET Relays /\ run.recovered
    BY <1>7 DEF MayRollover
  <2>4. \/ flush' = NoFlush /\ run'.dirty
        \/ /\ flush'.phase = "confirm" /\ flush'.del = flush.del
           /\ flush'.new = IF kept = {} THEN 0 ELSE Len(tokens) + 1
    BY <1>1, <1>4, <2>2 DEF Rearm, Flushing
  <2> QED
    BY <1>3, <1>5, <2>2, <2>3, <2>4
<1> QED
  BY <1>6, <1>7 DEF RolloverPublish

LEMMA ConfirmFacts ==
  ASSUME PurseInv, RolloverConfirm
  PROVE  /\ flush.phase = "confirm" /\ flush' = NoFlush
         /\ run'.phase = run.phase /\ run'.machine = run.machine /\ run'.used = run.used
         /\ run'.established = run.established /\ run'.recovered = run.recovered
         /\ run'.late = run.late /\ run'.mirror = run.mirror
         /\ \/ /\ flush.new \in Served(Relays)
               /\ \E honoured \in SUBSET Relays : tokens' = Pruned(flush.del, honoured)
               /\ run'.live_ids = {flush.new} /\ run'.dirty = run.dirty
            \/ tokens' = tokens /\ run'.live_ids = run.live_ids /\ run'.dirty
         /\ UNCHANGED <<mint, store, heads, retry>>
<1>1. run \in Running
  BY DEF PurseInv, WalletTypes
<1>2. \/ run' = [run EXCEPT !.live_ids = {flush.new}]
      \/ run' = [run EXCEPT !.dirty = TRUE]
  BY DEF RolloverConfirm, Rearm
<1>3. /\ run'.phase = run.phase /\ run'.machine = run.machine /\ run'.used = run.used
      /\ run'.established = run.established /\ run'.recovered = run.recovered
      /\ run'.late = run.late /\ run'.mirror = run.mirror
  BY <1>1, <1>2 DEF Running
<1>4. /\ run' = [run EXCEPT !.live_ids = {flush.new}] =>
           run'.live_ids = {flush.new} /\ run'.dirty = run.dirty
      /\ run' = [run EXCEPT !.dirty = TRUE] =>
           run'.live_ids = run.live_ids /\ run'.dirty = TRUE
  BY <1>1 DEF Running
<1>5. \A s \in SUBSET Relays : Retrievable(s) => flush.new \in Served(Relays)
  BY DEF Retrievable, Served
<1>6. /\ flush.phase = "confirm" /\ flush' = NoFlush /\ UNCHANGED <<mint, store, heads, retry>>
  BY DEF RolloverConfirm, Rearm
<1>7. \/ /\ flush.new \in Served(Relays)
         /\ \E honoured \in SUBSET Relays : tokens' = Pruned(flush.del, honoured)
         /\ run' = [run EXCEPT !.live_ids = {flush.new}]
      \/ tokens' = tokens /\ run' = [run EXCEPT !.dirty = TRUE]
  BY <1>5 DEF RolloverConfirm, Rearm
<1> QED
  BY <1>3, <1>4, <1>6, <1>7

LEMMA StopFacts ==
  ASSUME flush_estate \/ Crash
  PROVE  /\ run'.phase = "down" /\ run'.machine = run.machine /\ run'.used = run.used
         /\ ~run'.established /\ ~run'.recovered /\ run'.live_ids = {}
         /\ flush' = NoFlush /\ retry' = NoRetry
         /\ run.phase # "down"
         /\ \/ heads' = heads
            \/ run.recovered /\ \E acks \in SUBSET Relays : publish_config(run.mirror, acks)
         /\ UNCHANGED <<mint, store, tokens>>
BY DEF flush_estate, Crash, Stopped, Down

(* A life reads, restores, runs and ends; the flusher and the retry are idle   *)
(* until it is up; the retry runs only until the recovery; the mirror of a     *)
(* wallet that may derive is its counter.                                      *)
LifeInv ==
  /\ run.phase # "up" => flush.phase = "idle" /\ retry.phase = "off" /\ ~run.recovered
  /\ run.phase = "down" => ~run.established
  /\ run.phase # "down" => run.machine \in run.used
  /\ run.recovered => run.established
  /\ flush.phase = "confirm" => run.recovered
  /\ flush.phase # "idle" => flush.del = run.live_ids
  /\ retry.phase # "off" => ~run.recovered
  /\ retry.phase = "restore" => run.established
  /\ run.established => run.mirror = Purse1.counter
  /\ run.phase # "down" /\ ~run.established => Purse1.counter = 0
  /\ \A m \in Machines \ run.used : store[m].counter = 0

LEMMA LifeStep ==
  ASSUME WalAssumption, PurseInv, PurseInv', LifeInv, [Next]_vars
  PROVE  LifeInv'
<1>0. /\ run.machine \in Machines /\ \A m \in Machines : store[m].counter \in Nat
      /\ run.mirror \in Nat /\ run.used \subseteq Machines
      /\ run'.machine \in Machines /\ \A m \in Machines : store'[m].counter \in Nat
      /\ NoFlush.phase = "idle" /\ NoRetry.phase = "off"
  BY DEF PurseInv, WalletTypes, Running, Purse, NoFlush, NoRetry
<1>1. ASSUME NEW m \in Machines, BootRead(m)
      PROVE  LifeInv'
  <2>1. PICK c \in SUBSET Relays, t \in SUBSET Relays :
          LET floor == Larger(lww_head(c).counter, store[m].counter) IN
          /\ run.phase = "down"
          /\ run'.phase = "restore" /\ run'.machine = m /\ run'.used = run.used \cup {m}
          /\ ~run'.recovered /\ run'.mirror = floor
          /\ run'.established =
               should_establish_counter(store[m].counter > 0, Authoritative(c),
                 floor, Authoritative(t), Served(t) = {})
          /\ store'[m].counter = IF run'.established THEN floor ELSE store[m].counter
          /\ \A h \in Machines \ {m} : store'[h] = store[h]
          /\ UNCHANGED <<flush, retry>>
    BY <1>1, BootFacts
  <2>2. ~run'.established => store[m].counter = 0
    BY <1>0, <2>1 DEF should_establish_counter
  <2> QED
    BY <1>0, <2>1, <2>2 DEF LifeInv, Purse1
<1>2. CASE BootRestore
  <2>1. Grew(Purse1, store'[run.machine], mint, mint') /\ Purse1.counter <= store'[run.machine].counter
    BY <1>2, RestoreFacts DEF Grew
  <2>2. run.machine \in run.used /\ flush.phase = "idle"
    BY <1>2, RestoreFacts DEF LifeInv
  <2> QED
    BY <1>0, <1>2, <2>1, <2>2, RestoreFacts DEF LifeInv, Purse1, Larger
<1>3. CASE RetryRead
  <2>1. PICK c \in SUBSET Relays, t \in SUBSET Relays :
          LET floor == lww_head(c).counter
              fresh == ~run.established
                       /\ should_establish_counter(FALSE, Authoritative(c), floor,
                            Authoritative(t), Served(t) = {})
              lifted == Larger(floor, run.mirror)
          IN /\ run.phase = "up" /\ retry.phase = "wait" /\ run'.phase = "up"
             /\ run'.machine = run.machine /\ run'.used = run.used
             /\ run'.recovered = run.recovered /\ run'.live_ids = run.live_ids
             /\ run'.established = (run.established \/ fresh)
             /\ run'.mirror = IF fresh THEN lifted ELSE run.mirror
             /\ store'[run.machine].counter =
                  IF fresh THEN Larger(Purse1.counter, lifted) ELSE Purse1.counter
             /\ \A h \in Machines \ {run.machine} : store'[h] = store[h]
             /\ retry'.phase = "restore" => run'.established
             /\ UNCHANGED flush
    BY <1>3, RetryReadFacts
  <2>2. lww_head(c).counter \in Nat
    BY HeadTyped DEF PurseInv, HeadEvent
  <2> DEFINE fresh == ~run.established
                      /\ should_establish_counter(FALSE, Authoritative(c),
                           lww_head(c).counter, Authoritative(t), Served(t) = {})
             lifted == Larger(lww_head(c).counter, run.mirror)
  <2>3. /\ run'.established = (run.established \/ fresh)
        /\ run'.mirror = IF fresh THEN lifted ELSE run.mirror
        /\ store'[run.machine].counter =
             IF fresh THEN Larger(Purse1.counter, lifted) ELSE Purse1.counter
    BY <2>1
  <2>4. fresh => ~run.established
    OBVIOUS
  <2>5. lifted \in Nat
    BY <1>0, <2>2 DEF Larger
  <2> HIDE DEF fresh, lifted
  <2>6. ~run.established => Purse1.counter = 0
    BY <2>1 DEF LifeInv
  <2>7. run'.established => run'.mirror = store'[run.machine].counter
    <3>1. CASE fresh
      BY <2>3, <2>4, <2>5, <2>6, <3>1 DEF Larger
    <3>2. CASE ~fresh
      BY <2>3, <3>2 DEF LifeInv
    <3> QED
      BY <3>1, <3>2
  <2>8. ~run'.established => store'[run.machine].counter = 0
    BY <2>3, <2>6
  <2> QED
    BY <1>0, <2>1, <2>7, <2>8 DEF LifeInv, Purse1
<1>4. CASE RetryRestore
  <2>1. Purse1.counter <= store'[run.machine].counter
    BY <1>4, RetryRestoreFacts DEF Grew
  <2> QED
    BY <1>0, <1>4, <2>1, RetryRestoreFacts DEF LifeInv, Purse1, Larger
<1>5. CASE \/ Receive
           \/ \E p \in Indices : mint_send_token(p) \/ revoke_send(p)
  <2>1. Purse1.counter <= store'[run.machine].counter
    BY <1>5, SpendFacts DEF Grew
  <2> QED
    BY <1>0, <1>5, <2>1, SpendFacts DEF LifeInv, Purse1, Larger
<1>6. ASSUME NEW p \in Indices, Redeem(p)
      PROVE  LifeInv'
  BY <1>6 DEF Redeem, LifeInv, Purse1
<1>7. CASE FlushBegin
  BY <1>7, FlushBeginFacts DEF LifeInv, Purse1
<1>8. CASE RolloverPublish
  BY <1>0, <1>8, PublishFacts DEF LifeInv, Purse1
<1>9. CASE RolloverConfirm
  BY <1>0, <1>9, ConfirmFacts DEF LifeInv, Purse1
<1>10. CASE flush_estate \/ Crash
  BY <1>0, <1>10, StopFacts DEF LifeInv, Purse1
<1>11. CASE UNCHANGED vars
  BY <1>11 DEF vars, LifeInv, Purse1
<1> QED
  BY <1>1, <1>2, <1>3, <1>4, <1>5, <1>6, <1>7, <1>8, <1>9, <1>10, <1>11 DEF Next

(* The chain of backup events: each supersedes earlier ones only, and the one  *)
(* awaiting its read-after-write is the last.                                  *)
ChainInv ==
  /\ run.live_ids \subseteq DOMAIN tokens
  /\ \A j \in DOMAIN tokens : tokens[j].del \subseteq 1 .. j - 1
  /\ flush.phase = "gate" => flush.proofs \subseteq Purse1.known
  /\ flush.phase = "confirm" /\ flush.new # 0 =>
       /\ flush.new = Len(tokens) /\ tokens[flush.new].del = flush.del
       /\ tokens[flush.new].proofs \subseteq Purse1.known

LEMMA EventsTyped ==
  ASSUME WalletTypes
  PROVE  /\ Len(tokens) \in Nat /\ DOMAIN tokens = 1 .. Len(tokens)
         /\ \A i \in DOMAIN tokens : tokens[i] \in Token
BY LenProperties DEF WalletTypes

(* What a deletion request leaves of the events.                               *)
LEMMA PrunedFacts ==
  ASSUME WalletTypes, NEW ids, NEW relays, tokens' = Pruned(ids, relays)
  PROVE  /\ DOMAIN tokens' = DOMAIN tokens /\ Len(tokens') = Len(tokens)
         /\ \A i \in DOMAIN tokens :
              /\ tokens'[i].proofs \subseteq tokens[i].proofs
              /\ tokens'[i].del \subseteq tokens[i].del
              /\ tokens'[i].on \subseteq tokens[i].on
              /\ tokens'[i].on = {} \/ tokens'[i].del = tokens[i].del
              /\ i \notin ids => tokens'[i] = tokens[i]
<1>1. Len(tokens) \in Nat /\ DOMAIN tokens = 1 .. Len(tokens)
      /\ \A i \in DOMAIN tokens : tokens[i] \in Token
  BY EventsTyped
<1>2. DOMAIN tokens' = DOMAIN tokens
      /\ \A i \in DOMAIN tokens :
           tokens'[i] = IF i \notin ids THEN tokens[i]
                        ELSE IF tokens[i].on \subseteq relays THEN Forgotten
                        ELSE [tokens[i] EXCEPT !.on = tokens[i].on \ relays]
  BY DEF Pruned
<1>3. tokens' = [i \in 1 .. Len(tokens) |-> tokens'[i]]
  BY <1>1, <1>2 DEF Pruned
<1>4. \A i \in 1 .. Len(tokens) : tokens'[i] \in Token
  <2>1. Forgotten \in Token
    BY DEF Forgotten, Token
  <2>2. \A i \in DOMAIN tokens : [tokens[i] EXCEPT !.on = tokens[i].on \ relays] \in Token
    BY <1>1 DEF Token
  <2> QED
    BY <1>1, <1>2, <2>1, <2>2
<1>5. tokens' \in Seq(Token)
  <2>1. tokens' \in [1 .. Len(tokens) -> Token]
    BY <1>3, <1>4
  <2> QED
    BY <1>1, <2>1, IsASeq
<1>6. Len(tokens') = Len(tokens)
  BY <1>1, <1>2, <1>5, LenProperties
<1>7. ASSUME NEW i \in DOMAIN tokens
      PROVE  /\ tokens'[i].proofs \subseteq tokens[i].proofs
             /\ tokens'[i].del \subseteq tokens[i].del
             /\ tokens'[i].on \subseteq tokens[i].on
             /\ tokens'[i].on = {} \/ tokens'[i].del = tokens[i].del
             /\ i \notin ids => tokens'[i] = tokens[i]
  <2>1. CASE i \notin ids
    BY <1>2, <2>1
  <2>2. CASE i \in ids /\ tokens'[i] = Forgotten
    BY <2>2 DEF Forgotten
  <2>3. CASE i \in ids /\ tokens'[i] = [tokens[i] EXCEPT !.on = tokens[i].on \ relays]
    BY <1>1, <2>3 DEF Token
  <2> QED
    BY <1>2, <2>1, <2>2, <2>3
<1> QED
  BY <1>2, <1>6, <1>7

LEMMA ChainStep ==
  ASSUME WalAssumption, PurseInv, PurseInv', LifeInv, ChainInv, [Next]_vars
  PROVE  ChainInv'
<1>0. /\ NoFlush.phase = "idle"
      /\ Len(tokens) \in Nat /\ DOMAIN tokens = 1 .. Len(tokens)
      /\ flush \in Flushing /\ tokens \in Seq(Token)
      /\ \A i \in DOMAIN tokens : tokens[i] \in Token
      /\ Purse1.held \subseteq Purse1.known
  BY EventsTyped DEF PurseInv, WalletTypes, NoFlush, Sound, Purse1, Running
<1>1. ASSUME tokens' = tokens, flush' = flush, run'.machine = run.machine,
             run'.live_ids = run.live_ids, Purse1.known \subseteq Purse1'.known
      PROVE  ChainInv'
  BY <1>1 DEF ChainInv
<1>2. ASSUME tokens' = tokens, flush'.phase = "idle", run'.live_ids \subseteq DOMAIN tokens
      PROVE  ChainInv'
  BY <1>2 DEF ChainInv
<1>3. ASSUME NEW m \in Machines, BootRead(m)
      PROVE  ChainInv'
  <2>1. PICK t \in SUBSET Relays :
          run.phase = "down" /\ run'.live_ids = Served(t) /\ UNCHANGED <<tokens, flush>>
    BY <1>3, BootFacts
  <2>2. flush.phase = "idle" /\ Served(t) \subseteq DOMAIN tokens
    BY <2>1, ReadTyped DEF LifeInv, PurseInv
  <2> QED
    BY <1>2, <2>1, <2>2
<1>4. CASE BootRestore
  BY <1>1, <1>4, RestoreFacts DEF Grew, Purse1
<1>5. CASE RetryRead
  BY <1>1, <1>5, RetryReadFacts DEF Purse1
<1>6. CASE RetryRestore
  BY <1>1, <1>6, RetryRestoreFacts DEF Grew, Purse1
<1>7. CASE \/ Receive
           \/ \E p \in Indices : mint_send_token(p) \/ revoke_send(p)
  BY <1>1, <1>7, SpendFacts DEF Grew, Purse1
<1>8. ASSUME NEW p \in Indices, Redeem(p)
      PROVE  ChainInv'
  BY <1>1, <1>8 DEF Redeem, Purse1
<1>9. CASE FlushBegin
  BY <1>0, <1>9, FlushBeginFacts DEF ChainInv, Purse1
<1>10. CASE RolloverPublish
  <2>1. /\ flush.phase = "gate" /\ run'.live_ids = run.live_ids /\ run'.machine = run.machine
        /\ store' = store /\ flush.del = run.live_ids
    BY <1>10, PublishFacts DEF LifeInv
  <2>2. CASE tokens' = tokens /\ flush' = NoFlush
    BY <1>0, <1>2, <2>1, <2>2 DEF ChainInv
  <2>3. ASSUME NEW kept \in SUBSET Relays,
               tokens' = IF kept = {} THEN tokens
                         ELSE Append(tokens, [proofs |-> flush.proofs,
                                              del |-> flush.del, on |-> kept]),
               \/ flush' = NoFlush
               \/ /\ flush'.phase = "confirm" /\ flush'.del = flush.del
                  /\ flush'.new = IF kept = {} THEN 0 ELSE Len(tokens) + 1
        PROVE  ChainInv'
    <3>1. CASE kept = {}
      BY <1>0, <2>1, <2>3, <3>1 DEF ChainInv
    <3>2. CASE kept # {}
      <4> DEFINE e == [proofs |-> flush.proofs, del |-> flush.del, on |-> kept]
      <4>1. e \in Token /\ e.del = flush.del /\ e.proofs = flush.proofs
        BY <1>0 DEF Flushing, Token
      <4>2. tokens' = Append(tokens, e)
        BY <2>3, <3>2
      <4> HIDE DEF e
      <4>3. /\ DOMAIN tokens' = 1 .. Len(tokens) + 1 /\ Len(tokens') = Len(tokens) + 1
            /\ tokens'[Len(tokens) + 1] = e
            /\ \A j \in DOMAIN tokens : tokens'[j] = tokens[j]
        BY <1>0, <4>1, <4>2
      <4>4. run'.live_ids \subseteq DOMAIN tokens'
        BY <1>0, <2>1, <4>3 DEF ChainInv
      <4>5. \A j \in DOMAIN tokens' : tokens'[j].del \subseteq 1 .. j - 1
        BY <1>0, <2>1, <4>1, <4>3 DEF ChainInv
      <4> QED
        BY <1>0, <2>1, <2>3, <3>2, <4>1, <4>3, <4>4, <4>5 DEF ChainInv, Purse1
    <3> QED
      BY <3>1, <3>2
  <2> QED
    BY <1>10, <2>2, <2>3, PublishFacts
<1>11. CASE RolloverConfirm
  <2>1. flush'.phase = "idle" /\ run'.machine = run.machine
    BY <1>0, <1>11, ConfirmFacts
  <2>2. CASE tokens' = tokens /\ run'.live_ids = run.live_ids
    BY <1>2, <2>1, <2>2 DEF ChainInv
  <2>3. ASSUME NEW honoured \in SUBSET Relays, tokens' = Pruned(flush.del, honoured),
               flush.new \in Served(Relays), run'.live_ids = {flush.new}
        PROVE  ChainInv'
    <3>1. /\ DOMAIN tokens' = DOMAIN tokens
          /\ \A i \in DOMAIN tokens : tokens'[i].del \subseteq tokens[i].del
      BY <2>3, PrunedFacts DEF PurseInv
    <3>2. flush.new \in DOMAIN tokens
      BY <2>3 DEF Served
    <3> QED
      BY <2>1, <2>3, <3>1, <3>2 DEF ChainInv
  <2> QED
    BY <1>11, <2>2, <2>3, ConfirmFacts
<1>12. CASE flush_estate \/ Crash
  BY <1>0, <1>2, <1>12, StopFacts
<1>13. CASE UNCHANGED vars
  BY <1>1, <1>13 DEF vars, Purse1
<1> QED
  BY <1>3, <1>4, <1>5, <1>6, <1>7, <1>8, <1>9, <1>10, <1>11, <1>12, <1>13 DEF Next

(* A proof the wallet can spend is in the live backup, in the flush under way, *)
(* or waits for the next one.                                                  *)
Spendable1 == Purse1.held \ run.late
QuietInv ==
  /\ run.phase = "restore" => run.dirty
  /\ run.phase = "up" =>
       \/ run.dirty
       \/ flush.phase = "idle" /\ Spendable1 \subseteq reconcile_token_set(Relays)
       \/ flush.phase = "gate" /\ Spendable1 \subseteq flush.proofs
       \/ flush.phase = "confirm" /\ (flush.new # 0 => Spendable1 \subseteq tokens[flush.new].proofs)

LEMMA QuietStep ==
  ASSUME WalAssumption, PurseInv, PurseInv', LifeInv, ChainInv, QuietInv, [Next]_vars
  PROVE  QuietInv'
<1>0. /\ NoFlush.phase = "idle"
      /\ Len(tokens) \in Nat /\ DOMAIN tokens = 1 .. Len(tokens)
      /\ flush \in Flushing /\ tokens \in Seq(Token)
      /\ \A i \in DOMAIN tokens : tokens[i] \in Token
  BY EventsTyped DEF PurseInv, WalletTypes, NoFlush
<1>1. ASSUME run.phase = "up", tokens' = tokens, flush' = flush, run'.phase = "up",
             run.dirty => run'.dirty,
             run'.dirty \/ Spendable1' \subseteq Spendable1
      PROVE  QuietInv'
  <2>1. reconcile_token_set(Relays)' = reconcile_token_set(Relays)
    BY <1>1 DEF reconcile_token_set, live_token_event_ids, Served
  <2> QED
    BY <1>1, <2>1 DEF QuietInv
<1>2. ASSUME NEW m \in Machines, BootRead(m)
      PROVE  QuietInv'
  BY <1>2, BootFacts DEF QuietInv
<1>3. CASE BootRestore
  BY <1>3, RestoreFacts DEF QuietInv
<1>4. CASE RetryRead
  BY <1>1, <1>4, RetryReadFacts DEF Spendable1, Purse1
<1>5. CASE RetryRestore
  BY <1>1, <1>5, RetryRestoreFacts DEF Spendable1, Purse1
<1>6. CASE \/ Receive
           \/ \E p \in Indices : mint_send_token(p) \/ revoke_send(p)
  BY <1>1, <1>6, SpendFacts DEF Spendable1, Purse1
<1>7. ASSUME NEW p \in Indices, Redeem(p)
      PROVE  QuietInv'
  <2>1. UNCHANGED <<tokens, flush, run, store>>
    BY <1>7 DEF Redeem
  <2>2. reconcile_token_set(Relays)' = reconcile_token_set(Relays)
    BY <2>1 DEF reconcile_token_set, live_token_event_ids, Served
  <2> QED
    BY <2>1, <2>2 DEF QuietInv, Spendable1, Purse1
<1>8. CASE FlushBegin
  BY <1>8, FlushBeginFacts DEF QuietInv, Spendable1, Purse1
<1>9. CASE RolloverPublish
  <2>1. /\ flush.phase = "gate" /\ run'.phase = run.phase /\ run.phase = "up"
        /\ Spendable1' = Spendable1 /\ (run.dirty => run'.dirty)
    BY <1>9, PublishFacts DEF LifeInv, Spendable1, Purse1
  <2>2. CASE run'.dirty
    BY <2>1, <2>2 DEF QuietInv
  <2>3. ASSUME NEW kept \in SUBSET Relays, ~run'.dirty,
               tokens' = IF kept = {} THEN tokens
                         ELSE Append(tokens, [proofs |-> flush.proofs,
                                              del |-> flush.del, on |-> kept]),
               flush'.phase = "confirm", flush'.new = IF kept = {} THEN 0 ELSE Len(tokens) + 1
        PROVE  QuietInv'
    <3>1. flush'.new # 0 => tokens'[flush'.new].proofs = flush.proofs
      <4>1. [proofs |-> flush.proofs, del |-> flush.del, on |-> kept] \in Token
        BY <1>0 DEF Flushing, Token
      <4> QED
        BY <1>0, <2>3, <4>1
    <3> QED
      BY <2>1, <2>3, <3>1 DEF QuietInv
  <2> QED
    BY <1>9, <2>2, <2>3, PublishFacts
<1>10. CASE RolloverConfirm
  <2>1. /\ flush.phase = "confirm" /\ flush'.phase = "idle" /\ run'.phase = run.phase
        /\ run.phase = "up" /\ Spendable1' = Spendable1
    BY <1>0, <1>10, ConfirmFacts DEF LifeInv, Spendable1, Purse1
  <2>2. CASE run'.dirty
    BY <2>1, <2>2 DEF QuietInv
  <2>3. ASSUME NEW honoured \in SUBSET Relays, tokens' = Pruned(flush.del, honoured),
               flush.new \in Served(Relays), ~run'.dirty, run'.dirty = run.dirty
        PROVE  QuietInv'
    <3>1. /\ flush.new \in DOMAIN tokens /\ flush.new # 0
          /\ flush.new = Len(tokens) /\ tokens[flush.new].del = flush.del
          /\ tokens[flush.new].on \cap Relays # {}
      BY <1>0, <2>1, <2>3 DEF ChainInv, Served
    <3>2. flush.new \notin flush.del
      BY <1>0, <3>1 DEF ChainInv
    <3>3. /\ DOMAIN tokens' = DOMAIN tokens /\ tokens'[flush.new] = tokens[flush.new]
          /\ \A i \in DOMAIN tokens : tokens'[i].del \subseteq tokens[i].del
      BY <2>3, <3>1, <3>2, PrunedFacts DEF PurseInv
    <3>4. \A j \in DOMAIN tokens' : flush.new \notin tokens'[j].del
      BY <1>0, <3>1, <3>3 DEF ChainInv
    <3>5. tokens[flush.new].proofs \subseteq reconcile_token_set(Relays)'
      BY <3>1, <3>3, <3>4 DEF reconcile_token_set, live_token_event_ids, Served
    <3>6. Spendable1 \subseteq tokens[flush.new].proofs
      BY <2>1, <2>3, <3>1 DEF QuietInv
    <3> QED
      BY <2>1, <3>5, <3>6 DEF QuietInv
  <2> QED
    BY <1>10, <2>2, <2>3, ConfirmFacts
<1>11. CASE flush_estate \/ Crash
  BY <1>11, StopFacts DEF QuietInv
<1>12. CASE UNCHANGED vars
  <2>1. reconcile_token_set(Relays)' = reconcile_token_set(Relays)
    BY <1>12 DEF vars, reconcile_token_set, live_token_event_ids, Served
  <2> QED
    BY <1>12, <2>1 DEF vars, QuietInv, Spendable1, Purse1
<1> QED
  BY <1>2, <1>3, <1>4, <1>5, <1>6, <1>7, <1>8, <1>9, <1>10, <1>11, <1>12 DEF Next

(* What a relay keeps of an event it acknowledged is what a quorum reads.      *)
LEMMA DurableIsRead ==
  ASSUME WalAssumption, WalletTypes, NEW t \in SUBSET Relays, Authoritative(t)
  PROVE  DurableProofs \subseteq reconcile_token_set(t)
<1>1. \A i \in DOMAIN tokens : tokens[i].on \in SUBSET Relays
  BY EventsTyped DEF Token
<1>2. Served(t) \subseteq Served(Relays) /\ Served(t) \subseteq DOMAIN tokens
  BY DEF Served
<1>3. ASSUME NEW i \in live_token_event_ids(Relays), Durable(tokens[i].on)
      PROVE  i \in live_token_event_ids(t)
  <2>1. i \in DOMAIN tokens
    BY DEF live_token_event_ids, Served
  <2>2. tokens[i].on \cap t # {}
    BY <1>1, <1>3, <2>1, QuorumsMeet
  <2>3. i \in Served(t)
    BY <2>1, <2>2 DEF Served
  <2>4. \A j \in Served(Relays) : i \notin tokens[j].del
    BY DEF live_token_event_ids
  <2> QED
    BY <1>2, <2>3, <2>4 DEF live_token_event_ids
<1> QED
  BY <1>3 DEF DurableProofs, reconcile_token_set

(* A recovery has read every durable proof, and the events a wallet would      *)
(* supersede hold none it lacks.                                               *)
BackupInv ==
  /\ run.phase = "restore" /\ run.read_established => DurableProofs \subseteq run.candidates
  /\ retry.phase = "restore" /\ retry.token_ok => DurableProofs \subseteq retry.candidates
  /\ run.recovered =>
       \A i \in run.live_ids \cap live_token_event_ids(Relays) :
         Durable(tokens[i].on) => tokens[i].proofs \subseteq Purse1.known \cup mint.spent

NotLost ==
  \A p \in DurableProofs :
    \/ p \in reconcile_token_set(Relays)' \/ p \in mint'.spent
    \/ p \in store'[run'.machine].known

(* An event that a new one does not name stays live.                           *)
LEMMA AppendedFacts ==
  ASSUME WalletTypes, NEW e \in Token, tokens' = Append(tokens, e)
  PROVE  /\ \A i \in DOMAIN tokens : tokens'[i] = tokens[i]
         /\ \A i \in live_token_event_ids(Relays) \ e.del : i \in live_token_event_ids(Relays)'
         /\ \A i \in live_token_event_ids(Relays)' \cap DOMAIN tokens :
              i \in live_token_event_ids(Relays)
<1>0. Len(tokens) \in Nat /\ DOMAIN tokens = 1 .. Len(tokens) /\ tokens \in Seq(Token)
  BY EventsTyped DEF WalletTypes
<1>1. /\ DOMAIN tokens' = 1 .. Len(tokens) + 1 /\ tokens'[Len(tokens) + 1] = e
      /\ \A i \in DOMAIN tokens : tokens'[i] = tokens[i]
  BY <1>0
<1>2. /\ Served(Relays)' \subseteq Served(Relays) \cup {Len(tokens) + 1}
      /\ Served(Relays) \subseteq Served(Relays)'
      /\ Served(Relays) \subseteq DOMAIN tokens
  BY <1>0, <1>1 DEF Served
<1>3. \A i \in live_token_event_ids(Relays) \ e.del : i \in live_token_event_ids(Relays)'
  BY <1>1, <1>2 DEF live_token_event_ids
<1>4. \A i \in live_token_event_ids(Relays)' \cap DOMAIN tokens :
        i \in live_token_event_ids(Relays)
  <2> SUFFICES ASSUME NEW i \in live_token_event_ids(Relays)' \cap DOMAIN tokens
               PROVE  i \in live_token_event_ids(Relays)
    OBVIOUS
  <2>1. i \in Served(Relays) /\ tokens'[i] = tokens[i]
    BY <1>1 DEF live_token_event_ids, Served
  <2>2. \A j \in Served(Relays) : i \notin tokens[j].del
    <3> SUFFICES ASSUME NEW j \in Served(Relays)
                 PROVE  i \notin tokens[j].del
      OBVIOUS
    <3>1. j \in Served(Relays)' /\ tokens'[j] = tokens[j]
      BY <1>1, <1>2
    <3>2. i \notin tokens'[j].del
      BY <3>1 DEF live_token_event_ids
    <3> QED
      BY <3>1, <3>2
  <2> QED
    BY <2>1, <2>2 DEF live_token_event_ids
<1> QED
  BY <1>1, <1>3, <1>4

LEMMA BackupStep ==
  ASSUME WalAssumption, PurseInv, PurseInv', LifeInv, ChainInv, BackupInv,
         [Next]_vars
  PROVE  BackupInv' /\ NotLost
<1>0. /\ NoFlush.phase = "idle" /\ NoRetry.phase = "off"
      /\ Len(tokens) \in Nat /\ DOMAIN tokens = 1 .. Len(tokens)
      /\ flush \in Flushing /\ tokens \in Seq(Token)
      /\ \A i \in DOMAIN tokens : tokens[i] \in Token
      /\ WalletTypes /\ Relays \in SUBSET Relays
  BY EventsTyped DEF PurseInv, WalletTypes, NoFlush, NoRetry
(* With the events as they were, nothing of the backup is lost.                *)
<1>1. ASSUME tokens' = tokens
      PROVE  /\ NotLost /\ DurableProofs' = DurableProofs
             /\ live_token_event_ids(Relays)' = live_token_event_ids(Relays)
  <2>1. live_token_event_ids(Relays)' = live_token_event_ids(Relays)
    BY <1>1 DEF live_token_event_ids, Served
  <2>2. reconcile_token_set(Relays)' = reconcile_token_set(Relays)
    BY <1>1, <2>1 DEF reconcile_token_set
  <2>3. DurableProofs' = DurableProofs
    BY <1>1, <2>1 DEF DurableProofs, Durable
  <2>4. DurableProofs \subseteq reconcile_token_set(Relays)
    BY DEF DurableProofs, reconcile_token_set
  <2> QED
    BY <2>1, <2>2, <2>3, <2>4 DEF NotLost
<1>2. ASSUME tokens' = tokens, run'.phase # "restore",
             retry'.phase = "restore" => retry' = retry,
             run'.recovered => run.recovered, run'.live_ids = run.live_ids,
             Purse1.known \cup mint.spent \subseteq Purse1'.known \cup mint'.spent
      PROVE  BackupInv' /\ NotLost
  BY <1>1, <1>2 DEF BackupInv
<1>3. ASSUME NEW m \in Machines, BootRead(m)
      PROVE  BackupInv' /\ NotLost
  <2>1. PICK t \in SUBSET Relays :
          /\ run.phase = "down" /\ ~run'.recovered
          /\ run'.read_established = Authoritative(t)
          /\ run'.candidates = reconcile_token_set(t)
          /\ UNCHANGED <<tokens, retry>>
    BY <1>3, BootFacts
  <2>2. retry'.phase # "restore"
    BY <2>1 DEF LifeInv
  <2>3. run'.read_established => DurableProofs' \subseteq run'.candidates
    BY <1>0, <1>1, <2>1, DurableIsRead
  <2> QED
    BY <1>1, <2>1, <2>2, <2>3 DEF BackupInv
<1>4. CASE BootRestore
  <2>1. /\ run.phase = "restore" /\ run'.phase = "up" /\ tokens' = tokens
        /\ run'.machine = run.machine /\ retry'.phase # "restore"
        /\ run'.recovered => run.read_established
             /\ run.candidates \subseteq store'[run.machine].known \cup mint'.spent
    BY <1>4, RestoreFacts
  <2>2. run'.recovered => DurableProofs \subseteq Purse1'.known \cup mint'.spent
    BY <2>1 DEF BackupInv, Purse1
  <2>3. run'.recovered =>
          \A i \in live_token_event_ids(Relays) :
            Durable(tokens[i].on) => tokens[i].proofs \subseteq Purse1'.known \cup mint'.spent
    BY <2>2 DEF DurableProofs
  <2> QED
    BY <1>1, <2>1, <2>3 DEF BackupInv
<1>5. CASE RetryRead
  <2>1. PICK t \in SUBSET Relays :
          /\ run.phase = "up" /\ run'.phase = "up" /\ retry.phase = "wait"
          /\ run'.recovered = run.recovered
          /\ retry'.phase = "restore" =>
               /\ retry'.candidates = reconcile_token_set(t)
               /\ retry'.token_ok = Authoritative(t)
          /\ UNCHANGED <<tokens>>
    BY <1>5, RetryReadFacts
  <2>2. ~run'.recovered
    BY <2>1 DEF LifeInv
  <2>3. retry'.phase = "restore" /\ retry'.token_ok => DurableProofs' \subseteq retry'.candidates
    BY <1>0, <1>1, <2>1, DurableIsRead
  <2> QED
    BY <1>1, <2>1, <2>2, <2>3 DEF BackupInv
<1>6. CASE RetryRestore
  <2>1. /\ retry.phase = "restore" /\ run'.phase = "up" /\ tokens' = tokens /\ ~run.recovered
        /\ run'.machine = run.machine /\ retry'.phase # "restore"
        /\ run'.recovered => \/ run.recovered
                             \/ retry.token_ok
                                /\ retry.candidates \subseteq store'[run.machine].known \cup mint'.spent
    BY <1>6, RetryRestoreFacts DEF LifeInv
  <2>2. run'.recovered => DurableProofs \subseteq Purse1'.known \cup mint'.spent
    BY <2>1 DEF BackupInv, Purse1
  <2>3. run'.recovered =>
          \A i \in live_token_event_ids(Relays) :
            Durable(tokens[i].on) => tokens[i].proofs \subseteq Purse1'.known \cup mint'.spent
    BY <2>2 DEF DurableProofs
  <2> QED
    BY <1>1, <2>1, <2>3 DEF BackupInv
<1>7. CASE \/ Receive
           \/ \E p \in Indices : mint_send_token(p) \/ revoke_send(p)
  <2>1. Purse1.known \subseteq Purse1'.known /\ mint.spent \subseteq mint'.spent
    BY <1>7, SpendFacts DEF Grew, Purse1
  <2>2. /\ tokens' = tokens /\ run'.phase = "up" /\ retry' = retry
        /\ run'.recovered = run.recovered /\ run'.live_ids = run.live_ids
    BY <1>7, SpendFacts
  <2> QED
    BY <1>2, <2>1, <2>2
<1>8. ASSUME NEW p \in Indices, Redeem(p)
      PROVE  BackupInv' /\ NotLost
  <2>1. UNCHANGED <<tokens, run, store, retry>> /\ mint.spent \subseteq mint'.spent
    BY <1>0, <1>8 DEF Redeem, WalletTypes, Mint
  <2> QED
    BY <1>1, <2>1 DEF BackupInv, Purse1
<1>9. CASE FlushBegin
  BY <1>2, <1>9, FlushBeginFacts DEF Purse1
<1>10. CASE RolloverPublish
  <2>1. /\ flush.phase = "gate" /\ run'.phase = run.phase /\ run.phase = "up"
        /\ run'.recovered = run.recovered /\ run'.live_ids = run.live_ids
        /\ run'.machine = run.machine /\ store' = store /\ mint' = mint /\ retry' = retry
        /\ flush.del = run.live_ids
    BY <1>10, PublishFacts DEF LifeInv
  <2>2. CASE tokens' = tokens
    BY <1>2, <2>1, <2>2 DEF Purse1
  <2>3. ASSUME NEW kept \in SUBSET Relays, run.recovered,
               tokens' = Append(tokens, [proofs |-> flush.proofs,
                                         del |-> flush.del, on |-> kept])
        PROVE  BackupInv' /\ NotLost
    <3> DEFINE e == [proofs |-> flush.proofs, del |-> flush.del, on |-> kept]
    <3>1. e \in Token /\ e.del = run.live_ids
      BY <1>0, <2>1 DEF Flushing, Token
    <3>2. tokens' = Append(tokens, e)
      BY <2>3
    <3> HIDE DEF e
    <3>3. /\ \A i \in DOMAIN tokens : tokens'[i] = tokens[i]
          /\ \A i \in live_token_event_ids(Relays) \ e.del :
               i \in live_token_event_ids(Relays)'
          /\ \A i \in live_token_event_ids(Relays)' \cap DOMAIN tokens :
               i \in live_token_event_ids(Relays)
      BY <1>0, <3>1, <3>2, AppendedFacts
    <3>4. live_token_event_ids(Relays) \subseteq DOMAIN tokens
      BY DEF live_token_event_ids, Served
    <3>5. NotLost
      <4> SUFFICES ASSUME NEW i \in live_token_event_ids(Relays), Durable(tokens[i].on),
                          NEW p \in tokens[i].proofs
                   PROVE  \/ p \in reconcile_token_set(Relays)' \/ p \in mint'.spent
                          \/ p \in store'[run'.machine].known
        BY DEF NotLost, DurableProofs
      <4>1. CASE i \in run.live_ids
        BY <2>1, <2>3, <4>1 DEF BackupInv, Purse1
      <4>2. CASE i \notin run.live_ids
        <5>1. i \in live_token_event_ids(Relays)' /\ tokens'[i] = tokens[i]
          BY <3>1, <3>3, <3>4, <4>2
        <5> QED
          BY <5>1 DEF reconcile_token_set
      <4> QED
        BY <4>1, <4>2
    <3>6. \A i \in run'.live_ids \cap live_token_event_ids(Relays)' :
            /\ i \in run.live_ids \cap live_token_event_ids(Relays)
            /\ tokens'[i] = tokens[i]
      BY <2>1, <3>3 DEF ChainInv
    <3>7. run'.phase # "restore" /\ retry'.phase # "restore"
      BY <2>1, <2>3 DEF LifeInv
    <3>8. run'.recovered =>
            \A i \in run'.live_ids \cap live_token_event_ids(Relays)' :
              Durable(tokens'[i].on) => tokens'[i].proofs \subseteq Purse1'.known \cup mint'.spent
      BY <2>1, <3>6 DEF BackupInv, Purse1
    <3> QED
      BY <3>5, <3>7, <3>8 DEF BackupInv, Durable
  <2> QED
    BY <1>10, <2>2, <2>3, PublishFacts
<1>11. CASE RolloverConfirm
  <2>1. /\ flush.phase = "confirm" /\ run'.phase = run.phase /\ run.phase = "up"
        /\ run'.recovered = run.recovered /\ retry' = retry /\ run.recovered
        /\ run'.machine = run.machine /\ store' = store /\ mint' = mint
    BY <1>11, ConfirmFacts DEF LifeInv
  <2>2. CASE tokens' = tokens /\ run'.live_ids = run.live_ids
    BY <1>2, <2>1, <2>2 DEF Purse1
  <2>3. ASSUME NEW honoured \in SUBSET Relays, tokens' = Pruned(flush.del, honoured),
               flush.new \in Served(Relays), run'.live_ids = {flush.new}
        PROVE  BackupInv' /\ NotLost
    <3>1. /\ flush.new \in DOMAIN tokens /\ flush.new # 0
          /\ tokens[flush.new].del = flush.del
          /\ tokens[flush.new].proofs \subseteq Purse1.known
      BY <1>0, <2>1, <2>3 DEF ChainInv, Served
    <3>2. /\ DOMAIN tokens' = DOMAIN tokens
          /\ \A i \in DOMAIN tokens :
               /\ tokens'[i].proofs \subseteq tokens[i].proofs
               /\ tokens'[i].del \subseteq tokens[i].del
               /\ tokens'[i].on \subseteq tokens[i].on
               /\ i \notin flush.del => tokens'[i] = tokens[i]
      BY <1>0, <2>3, PrunedFacts
    <3>3. Served(Relays)' \subseteq Served(Relays)
      BY <3>2 DEF Served
    <3>4. NotLost
      <4> SUFFICES ASSUME NEW i \in live_token_event_ids(Relays), NEW p \in tokens[i].proofs
                   PROVE  p \in reconcile_token_set(Relays)'
        BY DEF NotLost, DurableProofs
      <4>1. i \in DOMAIN tokens /\ i \notin flush.del /\ i \in Served(Relays)
        BY <2>3, <3>1 DEF live_token_event_ids, Served
      <4>2. tokens'[i] = tokens[i] /\ i \in Served(Relays)'
        BY <3>2, <4>1 DEF Served
      <4>3. \A j \in Served(Relays)' : i \notin tokens'[j].del
        BY <3>2, <3>3 DEF live_token_event_ids, Served
      <4> QED
        BY <4>2, <4>3 DEF reconcile_token_set, live_token_event_ids
    <3>5. \A i \in run'.live_ids : tokens'[i].proofs \subseteq Purse1'.known
      BY <2>1, <2>3, <3>1, <3>2 DEF Purse1
    <3> QED
      BY <2>1, <3>4, <3>5 DEF BackupInv, LifeInv
  <2> QED
    BY <1>11, <2>2, <2>3, ConfirmFacts
<1>12. CASE flush_estate \/ Crash
  BY <1>0, <1>1, <1>12, StopFacts DEF BackupInv
<1>13. CASE UNCHANGED vars
  <2>1. UNCHANGED <<mint, store, tokens, run, retry>>
    BY <1>13 DEF vars
  <2> QED
    BY <1>1, <2>1 DEF BackupInv, Purse1
<1> QED
  BY <1>3, <1>4, <1>5, <1>6, <1>7, <1>8, <1>9, <1>10, <1>11, <1>12, <1>13 DEF Next

(* Every publication of a counter head is newer than the heads it replaces, so *)
(* one age has one head; and a wallet that may derive, or has derived, is      *)
(* above the floor of the quorums, if no host is given the agent twice.        *)
Ties == \A r, q \in Relays : heads[r].at = heads[q].at => heads[r] = heads[q]
AboveFloor == \A i \in Nat : QuorumFloor(i) => Purse1.counter >= i
FloorInv == Ties /\ (Purse1.counter > 0 \/ run.established => AboveFloor)

NotLowered == \A i \in Nat : QuorumFloor(i) => QuorumFloor(i)'

LEMMA AllAreAQuorum ==
  ASSUME WalAssumption
  PROVE  /\ Authoritative(Relays) /\ Relays # {} /\ ~Authoritative({})
<1>1. \A x : Cardinality(x) = Cardinality(x)
  BY DEF Cardinality, Cardinality
<1>2. /\ IsFiniteSet(Relays) /\ read_k \in 1 .. Cardinality(Relays)
      /\ Cardinality(Relays) \in Nat
  BY <1>1, FS_CardinalityType
  DEF WalAssumption, QuorumAssumption, quorum_intersection_ok,
      IsFiniteSet
<1>3. Cardinality({}) = 0
  BY FS_EmptySet
<1> QED
  BY <1>1, <1>2, <1>3 DEF Authoritative

(* A publication of a counter above the floor lowers no floor, and raises it   *)
(* no higher than that counter.                                                *)
LEMMA HeadRaised ==
  ASSUME WalAssumption, WalletTypes, WalletTypes', Ties,
         NEW counter \in Nat, NEW acks \in SUBSET Relays,
         publish_config(counter, acks),
         \A i \in Nat : QuorumFloor(i) => counter >= i
  PROVE  /\ Ties' /\ NotLowered
         /\ \A i \in Nat : QuorumFloor(i)' => counter >= i
<1>1. /\ heads' \in [Relays -> HeadEvent]
      /\ \A r \in Relays \ acks : heads'[r] = heads[r]
      /\ \A r \in acks : heads'[r].counter = counter
      /\ \A r \in acks, q \in Relays : heads'[r].at > heads[q].at
      /\ \A r \in acks, q \in acks : heads'[r] = heads'[q]
  BY HeadPublished
<1>2. \A r \in Relays : heads[r] \in HeadEvent /\ heads[r].at \in Nat /\ heads[r].counter \in Nat
                        /\ heads'[r].at \in Nat
  BY <1>1 DEF WalletTypes, HeadEvent
<1>3. Ties'
  <2> SUFFICES ASSUME NEW r \in Relays, NEW q \in Relays, heads'[r].at = heads'[q].at
               PROVE  heads'[r] = heads'[q]
    BY DEF Ties
  <2>1. CASE r \in acks /\ q \in acks
    BY <1>1, <2>1
  <2>2. CASE r \notin acks /\ q \notin acks
    BY <1>1, <2>2 DEF Ties
  <2>3. CASE r \in acks /\ q \notin acks
    BY <1>1, <1>2, <2>3
  <2>4. CASE r \notin acks /\ q \in acks
    BY <1>1, <1>2, <2>4
  <2> QED
    BY <2>1, <2>2, <2>3, <2>4
(* A read that meets the acknowledgements yields the new head, one that faults *)
(* them the old.                                                               *)
<1>4. ASSUME NEW s \in SUBSET Relays, s # {}
      PROVE  \E r \in s : /\ lww_head(s)' = heads'[r]
                          /\ \A q \in s : heads'[r].at >= heads'[q].at
  BY <1>1, <1>4, NewestExists DEF lww_head
<1>5. ASSUME NEW s \in SUBSET Relays, s \cap acks # {}
      PROVE  lww_head(s)'.counter = counter
  <2>1. PICK r \in s : /\ lww_head(s)' = heads'[r]
                       /\ \A q \in s : heads'[r].at >= heads'[q].at
    BY <1>4, <1>5
  <2>2. PICK q \in s \cap acks : TRUE
    BY <1>5
  <2>3. r \in acks
    <3>1. heads'[r].at >= heads'[q].at
      BY <2>1, <2>2
    <3>2. r \notin acks => heads'[r].at = heads[r].at /\ heads'[q].at > heads[r].at
      BY <1>1, <2>2
    <3> QED
      BY <1>2, <2>1, <2>2, <3>1, <3>2
  <2> QED
    BY <1>1, <2>1, <2>3
<1>6. ASSUME NEW s \in SUBSET Relays, s # {}, s \cap acks = {}
      PROVE  lww_head(s)' = lww_head(s)
  <2>1. PICK r \in s : /\ lww_head(s)' = heads'[r]
                       /\ \A q \in s : heads'[r].at >= heads'[q].at
    BY <1>4, <1>6
  <2>2. PICK q \in s : /\ lww_head(s) = heads[q]
                       /\ \A p \in s : heads[q].at >= heads[p].at
    BY <1>6, HeadIsNewest
  <2>3. heads'[r] = heads[r] /\ heads'[q] = heads[q]
    BY <1>1, <1>6
  <2>4. heads[r].at = heads[q].at
    <3>1. heads'[r].at >= heads'[q].at /\ heads[q].at >= heads[r].at
      BY <2>1, <2>2
    <3> QED
      BY <1>2, <2>3, <3>1
  <2> QED
    BY <2>1, <2>2, <2>3, <2>4 DEF Ties
<1>7. NotLowered
  <2> SUFFICES ASSUME NEW i \in Nat, QuorumFloor(i),
                      NEW s \in SUBSET Relays, Authoritative(s)
               PROVE  lww_head(s)'.counter >= i
    BY DEF NotLowered, QuorumFloor, Authoritative
  <2>1. s # {} /\ counter >= i /\ lww_head(s).counter >= i
    BY AllAreAQuorum DEF QuorumFloor
  <2> QED
    BY <1>5, <1>6, <2>1
<1>8. CASE acks = {}
  <2>1. \A i \in Nat : QuorumFloor(i)' => QuorumFloor(i)
    <3> SUFFICES ASSUME NEW i \in Nat, QuorumFloor(i)',
                        NEW s \in SUBSET Relays, Authoritative(s)
                 PROVE  lww_head(s).counter >= i
      BY DEF QuorumFloor
    <3>1. s # {} /\ lww_head(s)'.counter >= i
      BY AllAreAQuorum DEF QuorumFloor, Authoritative
    <3> QED
      BY <1>6, <1>8, <3>1
  <2> QED
    BY <1>3, <1>7, <2>1
<1>9. CASE acks # {}
  <2>1. lww_head(Relays)'.counter = counter
    BY <1>5, <1>9
  <2>2. \A i \in Nat : QuorumFloor(i)' => counter >= i
    BY <2>1, AllAreAQuorum DEF QuorumFloor, Authoritative
  <2> QED
    BY <1>3, <1>7, <2>2
<1> QED
  BY <1>8, <1>9

LEMMA FloorStep ==
  ASSUME WalAssumption, ~Returns, PurseInv, PurseInv', LifeInv, LifeInv', FloorInv,
         [Next]_vars
  PROVE  FloorInv' /\ NotLowered
<1>0. /\ run.machine \in Machines /\ \A m \in Machines : store[m].counter \in Nat
      /\ run.mirror \in Nat /\ run'.mirror \in Nat
      /\ run'.machine \in Machines /\ \A m \in Machines : store'[m].counter \in Nat
      /\ WalletTypes /\ WalletTypes'
      /\ \A s \in SUBSET Relays : lww_head(s).counter \in Nat
  BY HeadTyped DEF PurseInv, WalletTypes, Running, Purse, HeadEvent
<1>1. ASSUME heads' = heads
      PROVE  /\ Ties' /\ NotLowered
             /\ \A i \in Nat : QuorumFloor(i)' <=> QuorumFloor(i)
  <2>1. Ties'
    BY <1>1 DEF FloorInv, Ties
  <2>2. \A s : lww_head(s)' = lww_head(s)
    BY <1>1 DEF lww_head
  <2>3. \A i \in Nat : QuorumFloor(i)' <=> QuorumFloor(i)
    BY <2>2 DEF QuorumFloor, Authoritative
  <2> QED
    BY <2>1, <2>3 DEF NotLowered
<1>2. ASSUME heads' = heads, run'.machine = run.machine,
             Purse1.counter <= store'[run.machine].counter,
             store'[run.machine].counter > 0 \/ run'.established =>
               Purse1.counter > 0 \/ run.established
      PROVE  FloorInv' /\ NotLowered
  BY <1>0, <1>1, <1>2 DEF FloorInv, AboveFloor, Purse1
<1>3. ASSUME NEW counter \in Nat, NEW acks \in SUBSET Relays,
             publish_config(counter, acks), run.established,
             counter >= Purse1.counter, run'.machine = run.machine,
             store'[run.machine].counter >= counter
      PROVE  FloorInv' /\ NotLowered
  <2>1. \A i \in Nat : QuorumFloor(i) => counter >= i
    BY <1>0, <1>3 DEF FloorInv, AboveFloor, Purse1
  <2>2. /\ Ties' /\ NotLowered
        /\ \A i \in Nat : QuorumFloor(i)' => counter >= i
    BY <1>0, <1>3, <2>1, HeadRaised DEF FloorInv
  <2> QED
    BY <1>0, <1>3, <2>2 DEF FloorInv, AboveFloor, Purse1
<1>4. ASSUME NEW m \in Machines, BootRead(m)
      PROVE  FloorInv' /\ NotLowered
  <2>1. PICK c \in SUBSET Relays, t \in SUBSET Relays :
          LET floor == Larger(lww_head(c).counter, store[m].counter) IN
          /\ MayRun(m) /\ run'.machine = m
          /\ run'.established =
               should_establish_counter(store[m].counter > 0, Authoritative(c),
                 floor, Authoritative(t), Served(t) = {})
          /\ store'[m].counter = IF run'.established THEN floor ELSE store[m].counter
          /\ UNCHANGED heads
    BY <1>4, BootFacts
  <2>2. store[m].counter > 0 => m = run.machine
    BY <1>0, <2>1 DEF MayRun, LifeInv
  <2>3. ASSUME NEW i \in Nat, QuorumFloor(i), run'.established
        PROVE  store'[m].counter >= i
    <3>1. CASE store[m].counter > 0
      BY <1>0, <2>1, <2>2, <2>3, <3>1 DEF FloorInv, AboveFloor, Purse1, Larger
    <3>2. CASE ~(store[m].counter > 0)
      <4>1. Authoritative(c)
        BY <2>1, <2>3, <3>2 DEF should_establish_counter
      <4>2. lww_head(c).counter >= i
        BY <2>3, <4>1 DEF QuorumFloor
      <4> QED
        BY <1>0, <2>1, <2>3, <4>2 DEF Larger
    <3> QED
      BY <3>1, <3>2
  <2>4. store'[m].counter > 0 => run'.established
    BY <2>1 DEF should_establish_counter
  <2> QED
    BY <1>1, <2>1, <2>3, <2>4 DEF FloorInv, AboveFloor, Purse1
<1>5. CASE BootRestore
  <2>1. /\ run'.machine = run.machine /\ run'.established = run.established
        /\ Purse1.counter <= store'[run.machine].counter
        /\ ~run.established => store' = store
    BY <1>5, RestoreFacts DEF Grew
  <2>2. CASE heads' = heads
    BY <1>2, <2>1, <2>2 DEF Purse1
  <2>3. ASSUME NEW acks \in SUBSET Relays, run'.recovered,
               publish_config(run'.mirror, acks)
        PROVE  FloorInv' /\ NotLowered
    <3>1. run.established /\ run'.mirror = store'[run.machine].counter
      BY <2>1, <2>3 DEF LifeInv, Purse1
    <3> QED
      BY <1>0, <1>3, <2>1, <2>3, <3>1
  <2> QED
    BY <1>5, <2>2, <2>3, RestoreFacts
<1>6. CASE RetryRead
  <2>1. PICK c \in SUBSET Relays, t \in SUBSET Relays :
          LET floor == lww_head(c).counter
              fresh == ~run.established
                       /\ should_establish_counter(FALSE, Authoritative(c), floor,
                            Authoritative(t), Served(t) = {})
              lifted == Larger(floor, run.mirror)
          IN /\ run'.machine = run.machine
             /\ run'.established = (run.established \/ fresh)
             /\ store'[run.machine].counter =
                  IF fresh THEN Larger(Purse1.counter, lifted) ELSE Purse1.counter
             /\ UNCHANGED heads
    BY <1>6, RetryReadFacts
  <2> DEFINE fresh == ~run.established
                      /\ should_establish_counter(FALSE, Authoritative(c),
                           lww_head(c).counter, Authoritative(t), Served(t) = {})
             lifted == Larger(lww_head(c).counter, run.mirror)
  <2>2. CASE fresh
    <3>1. Authoritative(c)
      BY <2>2 DEF should_establish_counter
    <3>2. store'[run.machine].counter = Larger(Purse1.counter, lifted)
      BY <2>1, <2>2
    <3>3. store'[run.machine].counter >= lww_head(c).counter
      BY <1>0, <3>2 DEF Larger, Purse1
    <3>4. \A i \in Nat : QuorumFloor(i) => lww_head(c).counter >= i
      BY <3>1 DEF QuorumFloor
    <3>5. heads' = heads /\ run'.machine = run.machine
      BY <2>1
    <3>6. \A i \in Nat : QuorumFloor(i)' => store'[run.machine].counter >= i
      BY <1>0, <1>1, <3>3, <3>4, <3>5
    <3> QED
      BY <1>1, <3>5, <3>6 DEF FloorInv, AboveFloor, Purse1
  <2>3. CASE ~fresh
    <3>0. /\ run'.machine = run.machine /\ run'.established = (run.established \/ fresh)
          /\ store'[run.machine].counter =
               IF fresh THEN Larger(Purse1.counter, lifted) ELSE Purse1.counter
          /\ heads' = heads
      BY <2>1
    <3> HIDE DEF fresh, lifted
    <3>1. /\ run'.machine = run.machine /\ (run'.established => run.established)
          /\ store'[run.machine].counter = Purse1.counter /\ heads' = heads
      BY <2>3, <3>0
    <3> QED
      BY <1>0, <1>2, <3>1 DEF Purse1
  <2> QED
    BY <2>2, <2>3
<1>7. CASE RetryRestore
  <2>1. run.established /\ run'.machine = run.machine /\ heads' = heads
        /\ Purse1.counter <= store'[run.machine].counter
    BY <1>7, RetryRestoreFacts DEF LifeInv, Grew
  <2> QED
    BY <1>2, <2>1
<1>8. CASE \/ Receive
           \/ \E p \in Indices : mint_send_token(p) \/ revoke_send(p)
  <2>1. /\ run'.machine = run.machine /\ heads' = heads
        /\ Purse1.counter <= store'[run.machine].counter
        /\ run'.established = run.established
        /\ run.established \/ store'[run.machine].counter = Purse1.counter
    BY <1>8, SpendFacts DEF Grew
  <2> QED
    BY <1>2, <2>1
<1>9. ASSUME NEW p \in Indices, Redeem(p)
      PROVE  FloorInv' /\ NotLowered
  BY <1>0, <1>2, <1>9 DEF Redeem, Purse1
<1>10. CASE FlushBegin
  BY <1>0, <1>2, <1>10, FlushBeginFacts DEF Purse1
<1>11. CASE RolloverPublish
  BY <1>0, <1>2, <1>11, PublishFacts DEF Purse1
<1>12. CASE RolloverConfirm
  BY <1>0, <1>2, <1>12, ConfirmFacts DEF Purse1
<1>13. CASE flush_estate \/ Crash
  <2>1. run'.machine = run.machine /\ ~run'.established /\ store' = store
    BY <1>13, StopFacts
  <2>2. CASE heads' = heads
    BY <1>0, <1>2, <2>1, <2>2 DEF Purse1
  <2>3. ASSUME NEW acks \in SUBSET Relays, run.recovered,
               publish_config(run.mirror, acks)
        PROVE  FloorInv' /\ NotLowered
    <3>1. run.established /\ run.mirror = Purse1.counter
      BY <2>3 DEF LifeInv
    <3> QED
      BY <1>0, <1>3, <2>1, <2>3, <3>1 DEF Purse1
  <2> QED
    BY <1>13, <2>2, <2>3, StopFacts
<1>14. CASE UNCHANGED vars
  BY <1>0, <1>2, <1>14 DEF vars, Purse1
<1> QED
  BY <1>4, <1>5, <1>6, <1>7, <1>8, <1>9, <1>10, <1>11, <1>12, <1>13, <1>14 DEF Next

(* A wallet established at zero has no durable backup of a proof.              *)
EmptyInv ==
  run.established /\ Purse1.counter = 0 =>
    \A e \in DOMAIN tokens : Durable(tokens[e].on) => tokens[e].proofs = {}

LEMMA EmptyStep ==
  ASSUME WalAssumption, PurseInv, PurseInv', LifeInv, ChainInv, EmptyInv, [Next]_vars
  PROVE  EmptyInv'
<1>0. /\ run.machine \in Machines /\ \A m \in Machines : store[m].counter \in Nat
      /\ run.mirror \in Nat /\ run'.machine \in Machines
      /\ Sound(Purse1) /\ flush \in Flushing /\ tokens \in Seq(Token)
      /\ \A s \in SUBSET Relays : lww_head(s).counter \in Nat
      /\ Len(tokens) \in Nat /\ DOMAIN tokens = 1 .. Len(tokens)
      /\ \A i \in DOMAIN tokens : tokens[i] \in Token
  BY HeadTyped, EventsTyped DEF PurseInv, WalletTypes, Running, Purse, HeadEvent, Purse1
<1>1. ASSUME NEW t \in SUBSET Relays, Authoritative(t), Served(t) = {}
      PROVE  \A e \in DOMAIN tokens : ~Durable(tokens[e].on)
  <2>1. \A e \in DOMAIN tokens : tokens[e].on \in SUBSET Relays
    BY <1>0 DEF Token
  <2>2. \A e \in DOMAIN tokens : tokens[e].on \cap t = {}
    BY <1>1 DEF Served
  <2> QED
    BY <1>1, <2>1, <2>2, QuorumsMeet
<1>2. ASSUME run'.machine = run.machine, tokens' = tokens,
             run'.established => run.established,
             Purse1.counter <= store'[run.machine].counter
      PROVE  EmptyInv'
  <2>1. Purse1'.counter = 0 => Purse1.counter = 0
    BY <1>0, <1>2 DEF Purse1
  <2> QED
    BY <1>2, <2>1 DEF EmptyInv, Durable
<1>3. ASSUME NEW m \in Machines, BootRead(m)
      PROVE  EmptyInv'
  <2>1. PICK c \in SUBSET Relays, t \in SUBSET Relays :
          LET floor == Larger(lww_head(c).counter, store[m].counter) IN
          /\ run'.machine = m /\ tokens' = tokens
          /\ run'.established =
               should_establish_counter(store[m].counter > 0, Authoritative(c),
                 floor, Authoritative(t), Served(t) = {})
          /\ store'[m].counter = IF run'.established THEN floor ELSE store[m].counter
    BY <1>3, BootFacts
  <2> DEFINE floor == Larger(lww_head(c).counter, store[m].counter)
  <2>2. store[m].counter > 0 => floor > 0
    BY <1>0 DEF Larger
  <2>3. run'.established /\ store'[m].counter = 0 => Authoritative(t) /\ Served(t) = {}
    <3> SUFFICES ASSUME run'.established, store'[m].counter = 0
                 PROVE  Authoritative(t) /\ Served(t) = {}
      OBVIOUS
    <3>1. floor = 0
      BY <2>1
    <3>2. ~(store[m].counter > 0) /\ ~(floor > 0)
      BY <2>2, <3>1
    <3>3. should_establish_counter(store[m].counter > 0, Authoritative(c),
            floor, Authoritative(t), Served(t) = {})
      BY <2>1
    <3> HIDE DEF floor
    <3> QED
      BY <3>2, <3>3 DEF should_establish_counter
  <2>4. run'.established /\ store'[m].counter = 0 =>
          \A e \in DOMAIN tokens : ~Durable(tokens[e].on)
    BY <1>1, <2>3
  <2> QED
    BY <2>1, <2>4 DEF EmptyInv, Purse1, Durable
<1>4. CASE RetryRead
  <2>1. PICK c \in SUBSET Relays, t \in SUBSET Relays :
          LET floor == lww_head(c).counter
              fresh == ~run.established
                       /\ should_establish_counter(FALSE, Authoritative(c), floor,
                            Authoritative(t), Served(t) = {})
              lifted == Larger(floor, run.mirror)
          IN /\ run'.machine = run.machine
             /\ run'.established = (run.established \/ fresh)
             /\ store'[run.machine].counter =
                  IF fresh THEN Larger(Purse1.counter, lifted) ELSE Purse1.counter
             /\ tokens' = tokens
    BY <1>4, RetryReadFacts
  <2> DEFINE fresh == ~run.established
                      /\ should_establish_counter(FALSE, Authoritative(c),
                           lww_head(c).counter, Authoritative(t), Served(t) = {})
             lifted == Larger(lww_head(c).counter, run.mirror)
  <2>2. CASE fresh
    <3>1. store'[run.machine].counter = Larger(Purse1.counter, lifted)
      BY <2>1, <2>2
    <3>2. store'[run.machine].counter >= lww_head(c).counter
      BY <1>0, <3>1 DEF Larger, Purse1
    <3>3. store'[run.machine].counter = 0 => Authoritative(t) /\ Served(t) = {}
      BY <1>0, <2>2, <3>2 DEF should_establish_counter
    <3>4. store'[run.machine].counter = 0 =>
            \A e \in DOMAIN tokens : ~Durable(tokens[e].on)
      BY <1>1, <3>3
    <3> QED
      BY <2>1, <3>4 DEF EmptyInv, Purse1, Durable
  <2>3. CASE ~fresh
    <3>0. /\ run'.machine = run.machine /\ run'.established = (run.established \/ fresh)
          /\ store'[run.machine].counter =
               IF fresh THEN Larger(Purse1.counter, lifted) ELSE Purse1.counter
          /\ tokens' = tokens
      BY <2>1
    <3> HIDE DEF fresh, lifted
    <3>1. /\ run'.machine = run.machine /\ (run'.established => run.established)
          /\ store'[run.machine].counter = Purse1.counter /\ tokens' = tokens
      BY <2>3, <3>0
    <3> QED
      BY <1>0, <1>2, <3>1 DEF Purse1
  <2> QED
    BY <2>2, <2>3
<1>5. CASE BootRestore
  BY <1>2, <1>5, RestoreFacts DEF Grew
<1>6. CASE RetryRestore
  BY <1>2, <1>6, RetryRestoreFacts DEF Grew
<1>7. CASE \/ Receive
           \/ \E p \in Indices : mint_send_token(p) \/ revoke_send(p)
  BY <1>2, <1>7, SpendFacts DEF Grew
<1>8. ASSUME NEW p \in Indices, Redeem(p)
      PROVE  EmptyInv'
  BY <1>0, <1>2, <1>8 DEF Redeem, Purse1
<1>9. CASE FlushBegin
  BY <1>0, <1>2, <1>9, FlushBeginFacts DEF Purse1
<1>10. CASE RolloverPublish
  <2>1. /\ flush.phase = "gate" /\ run'.machine = run.machine /\ store' = store
        /\ run'.established = run.established
    BY <1>10, PublishFacts
  <2>2. CASE tokens' = tokens
    BY <1>0, <1>2, <2>1, <2>2 DEF Purse1
  <2>3. ASSUME NEW kept \in SUBSET Relays,
               tokens' = Append(tokens, [proofs |-> flush.proofs,
                                         del |-> flush.del, on |-> kept])
        PROVE  EmptyInv'
    <3> DEFINE e == [proofs |-> flush.proofs, del |-> flush.del, on |-> kept]
    <3>1. e \in Token /\ e.proofs \subseteq Purse1.known
      BY <1>0, <2>1 DEF Flushing, Token, ChainInv
    <3>2. tokens' = Append(tokens, e)
      BY <2>3
    <3> HIDE DEF e
    <3>3. /\ DOMAIN tokens' = 1 .. Len(tokens) + 1 /\ tokens'[Len(tokens) + 1] = e
          /\ \A i \in DOMAIN tokens : tokens'[i] = tokens[i]
      BY <1>0, <3>1, <3>2
    <3>4. Purse1.counter = 0 => e.proofs = {}
      BY <1>0, <3>1 DEF Sound
    <3>5. \A i \in DOMAIN tokens' : i \in DOMAIN tokens \/ tokens'[i] = e
      BY <1>0, <3>3
    <3> QED
      BY <2>1, <3>3, <3>4, <3>5 DEF EmptyInv, Purse1, Durable
  <2> QED
    BY <1>10, <2>2, <2>3, PublishFacts
<1>11. CASE RolloverConfirm
  <2>1. run'.machine = run.machine /\ store' = store /\ run'.established = run.established
    BY <1>11, ConfirmFacts
  <2>2. CASE tokens' = tokens
    BY <1>0, <1>2, <2>1, <2>2 DEF Purse1
  <2>3. ASSUME NEW honoured \in SUBSET Relays, tokens' = Pruned(flush.del, honoured)
        PROVE  EmptyInv'
    <3>1. /\ DOMAIN tokens' = DOMAIN tokens
          /\ \A i \in DOMAIN tokens : /\ tokens'[i].proofs \subseteq tokens[i].proofs
                                      /\ tokens'[i].on \subseteq tokens[i].on
      BY <2>3, PrunedFacts DEF PurseInv
    <3>2. ASSUME NEW i \in DOMAIN tokens, Durable(tokens'[i].on)
          PROVE  Durable(tokens[i].on)
      <4>1. IsFiniteSet(tokens[i].on)
        <5>1. IsFiniteSet(Relays)
          BY DEF WalAssumption, QuorumAssumption
        <5> QED
          BY <1>0, <5>1, FS_Subset DEF Token
      <4>2. Cardinality(tokens'[i].on) <= Cardinality(tokens[i].on)
        BY <3>1, <4>1, FS_Subset
      <4>3. Cardinality(tokens'[i].on) \in Nat /\ Cardinality(tokens[i].on) \in Nat /\ write_k \in Nat
        BY <3>1, <4>1, FS_Subset, FS_CardinalityType DEF WalAssumption, WalletAssumption
      <4>4. \A x : Cardinality(x) = Cardinality(x)
        BY DEF Cardinality, Cardinality
      <4> QED
        BY <3>2, <4>2, <4>3, <4>4 DEF Durable
    <3>3. \A i \in DOMAIN tokens' : Durable(tokens'[i].on) => Durable(tokens[i].on)
      BY <3>1, <3>2
    <3> QED
      BY <2>1, <3>1, <3>3 DEF EmptyInv, Purse1, Durable
  <2> QED
    BY <1>11, <2>2, <2>3, ConfirmFacts
<1>12. CASE flush_estate \/ Crash
  BY <1>12, StopFacts DEF EmptyInv
<1>13. CASE UNCHANGED vars
  BY <1>0, <1>2, <1>13 DEF vars, Purse1
<1> QED
  BY <1>3, <1>4, <1>5, <1>6, <1>7, <1>8, <1>9, <1>10, <1>11, <1>12, <1>13 DEF Next

BackedInv == PurseInv /\ LifeInv /\ ChainInv /\ QuietInv /\ BackupInv /\ EmptyInv

LEMMA WalletStarts ==
  ASSUME WalAssumption, Init
  PROVE  BackedInv /\ FloorInv
<1>1. PICK m \in Machines : run = Down(m, 0, {})
  BY DEF Init
<1>2. /\ run.phase = "down" /\ run.machine = m /\ run.used = {} /\ run.live_ids = {}
      /\ run.established = FALSE /\ run.recovered = FALSE /\ run.mirror = 0
      /\ run \in Running
  BY <1>1 DEF Down, Running
<1>3. /\ store = [h \in Machines |-> [counter |-> 0, held |-> {}, inflight |-> {}, known |-> {}]]
      /\ mint = [signed |-> {}, spent |-> {}] /\ tokens = <<>>
      /\ heads = [r \in Relays |-> NoHead]
      /\ flush = NoFlush /\ retry = NoRetry
  BY DEF Init
<1>4. \A h \in Machines : Sound(store[h]) /\ store[h].counter = 0
  BY <1>3 DEF Sound, Purse
<1>5. flush.phase = "idle" /\ retry.phase = "off" /\ flush \in Flushing /\ retry \in Retrying
  BY <1>3 DEF NoFlush, NoRetry, Flushing, Retrying
<1>6. PurseInv
  <2>1. store \in [Machines -> Purse] /\ mint \in Mint
    BY <1>3 DEF Purse, Mint
  <2>2. heads \in [Relays -> HeadEvent]
    BY <1>3 DEF HeadEvent, NoHead
  <2>3. tokens \in Seq(Token)
    BY <1>3
  <2> QED
    BY <1>2, <1>4, <1>5, <2>1, <2>2, <2>3 DEF PurseInv, WalletTypes
<1>7. DOMAIN tokens = {}
  BY <1>3
<1>8. LifeInv /\ ChainInv /\ QuietInv /\ BackupInv /\ EmptyInv
  BY <1>2, <1>4, <1>5, <1>7
  DEF LifeInv, ChainInv, QuietInv, BackupInv, EmptyInv, Purse1
<1>9. FloorInv
  BY <1>2, <1>3, <1>4 DEF FloorInv, Ties, Purse1
<1> QED
  BY <1>6, <1>8, <1>9 DEF BackedInv

LEMMA BackedStep ==
  ASSUME WalAssumption, BackedInv, [Next]_vars
  PROVE  BackedInv' /\ NotLost
<1>1. PurseInv'
  BY PurseStep DEF BackedInv
<1> QED
  BY <1>1, LifeStep, ChainStep, QuietStep, BackupStep, EmptyStep DEF BackedInv

LEMMA WalletBacked ==
  ASSUME WalAssumption
  PROVE  Spec => []BackedInv
<1>1. Init => BackedInv
  BY WalletStarts
<1>2. BackedInv /\ [Next]_vars => BackedInv'
  BY BackedStep
<1> QED
  BY <1>1, <1>2, PTL DEF Spec

(* Once nothing is dirty and no flush is under way, every proof the wallet can *)
(* spend is in a live backup event, but for those the retry brought in         *)
(* (Nip60BackupFlusher::flush and the dirty flag of rail.rs): whatever the     *)
(* number of hosts, relays, proofs and lives.                                  *)
THEOREM BackupMirrorsWallet ==
  ASSUME WalAssumption
  PROVE  Spec => []QuietMirror
<1>1. BackedInv => QuietMirror
  BY DEF BackedInv, QuietInv, QuietMirror, Spendable1, Purse1
<1> QED
  BY <1>1, WalletBacked, PTL

(* A proof of a durable live event leaves the backup only when it is spent or  *)
(* the running wallet knows it: Nip60Store::rollover deletes nothing that the  *)
(* boot or the retry did not restore first.                                    *)
THEOREM DurableProofsSurvive ==
  ASSUME WalAssumption
  PROVE  Spec => BackupNeverLost
<1>1. BackedInv /\ [Next]_vars =>
        [\A p \in DurableProofs : p \in (reconcile_token_set(Relays))'
                                      \/ p \in mint'.spent \/ p \in store'[run'.machine].known]_vars
  BY BackedStep DEF NotLost
<1> QED
  BY <1>1, WalletBacked, PTL DEF Spec, BackupNeverLost

LEMMA FlooredStep ==
  ASSUME WalAssumption, ~Returns, BackedInv, FloorInv, [Next]_vars
  PROVE  FloorInv' /\ NotLowered
<1>1. PurseInv' /\ LifeInv' /\ PurseInv /\ LifeInv
  BY BackedStep DEF BackedInv
<1> QED
  BY <1>1, FloorStep

LEMMA WalletFloored ==
  ASSUME WalAssumption, ~Returns
  PROVE  Spec => []FloorInv
<1>1. Init => FloorInv
  BY WalletStarts
<1>2. BackedInv /\ FloorInv /\ [Next]_vars => FloorInv'
  BY FlooredStep
<1> QED
  BY <1>1, <1>2, WalletBacked, PTL DEF Spec

(* A wallet that may derive starts above every counter head that no quorum of  *)
(* relays faults, and at zero only if no durable backup holds a proof          *)
(* (should_establish_counter over two read quorums), as long as a host that    *)
(* lost the agent is not given it again.                                       *)
THEOREM DerivationIsAboveFloor ==
  ASSUME WalAssumption, ~Returns
  PROVE  Spec => []DerivesAboveFloor
<1>1. BackedInv /\ FloorInv => DerivesAboveFloor
  <2>1. MaxIndex \in Nat => Indices \subseteq Nat
    BY DEF Indices
  <2>2. MaxIndex \in Nat
    BY DEF WalAssumption, WalletAssumption
  <2> QED
    BY <2>1, <2>2
    DEF BackedInv, EmptyInv, FloorInv, AboveFloor, DerivesAboveFloor, Purse1
<1> QED
  BY <1>1, WalletBacked, WalletFloored, PTL

(* Whatever quorum of relays is read, the counter head it yields is never      *)
(* replaced by a lower one: what flush_estate and the boot publish is at least *)
(* the floor, as long as a host that lost the agent is not given it again.     *)
THEOREM HeadOnlyAdvances ==
  ASSUME WalAssumption, ~Returns
  PROVE  Spec => HeadNeverRegresses
<1>1. BackedInv /\ FloorInv /\ [Next]_vars =>
        [\A i \in Indices : QuorumFloor(i) => QuorumFloor(i)']_vars
  <2>1. MaxIndex \in Nat => Indices \subseteq Nat
    BY DEF Indices
  <2>2. MaxIndex \in Nat
    BY DEF WalAssumption, WalletAssumption
  <2> QED
    BY <2>1, <2>2, FlooredStep DEF NotLowered
<1> QED
  BY <1>1, WalletBacked, WalletFloored, PTL DEF Spec, HeadNeverRegresses
=============================================================================
