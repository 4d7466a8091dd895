---------------------------- MODULE WalletBackup ----------------------------
(* The relay backup of an agent's Cashu wallet (NIP-60): nip60.rs,            *)
(* nip60_counter.rs, nip60_reconcile.rs, mint_rig.rs, the flusher of rail.rs  *)
(* and the boot and retry of boot.rs.                                         *)
(*                                                                            *)
(* A wallet derives the secret of every proof from a counter (NUT-13), so a   *)
(* proof is named by the index it was derived at.  A machine holds its own    *)
(* store; a takeover runs the same seed on another machine, which knows only  *)
(* what the relays and the mint answer.  Two latches guard the takeover:      *)
(* `established' gates every derivation, `recovered' gates every publication. *)
EXTENDS Naturals, Sequences, FiniteSets

CONSTANTS
  Machines,      \* hosts that may run the agent, one at a time (the lease)
  Relays,        \* the [nip60] relay set
  write_k,       \* relays that must acknowledge a write
  read_k,        \* relays that must serve an authoritative read
  Returns,       \* whether a host that lost the agent may be given it again
  MaxIndex,      \* bound: derivations per store
  MaxEvents,     \* bound: token events published
  MaxLives,      \* bound: boots
  MaxAttempts,   \* CONFIG_RETRY_MAX_ATTEMPTS
  MaxFaults      \* bound: calls that miss a relay, or that the mint fails

\* What a configuration must satisfy for the node to boot.
quorum_intersection_ok ==
  /\ write_k \in 1 .. Cardinality(Relays) /\ read_k \in 1 .. Cardinality(Relays)
  /\ read_k + write_k > Cardinality(Relays)

ASSUME QuorumAssumption == IsFiniteSet(Relays) /\ quorum_intersection_ok

ASSUME WalletAssumption ==
  /\ {write_k, read_k, MaxIndex, MaxEvents, MaxLives, MaxAttempts, MaxFaults} \subseteq Nat
  /\ Returns \in BOOLEAN

VARIABLES
  mint,     \* the mint: indices it has signed, proofs it has seen spent
  store,    \* [Machines -> the wallet database of the host]
  tokens,   \* kind 7375 events: proofs, del-chain, the relays that hold them
  heads,    \* [Relays -> the kind 17375 event the relay keeps]
  run,      \* the running node: its latches, counter mirror and backup state
  flush,    \* the flusher: what it holds between its awaits
  retry,    \* the bounded read-retry task
  faults    \* calls that went wrong so far

vars == <<mint, store, tokens, heads, run, flush, retry, faults>>

Indices == 1 .. MaxIndex
Larger(a, b) == IF a >= b THEN a ELSE b

NoHead == [at |-> 0, counter |-> 0]
NoFlush == [phase |-> "idle", proofs |-> {}, del |-> {}, new |-> 0]
NoRetry == [phase |-> "off", attempts |-> 0, candidates |-> {}, token_ok |-> FALSE]
Down(m, lives, used) ==
  [phase |-> "down", machine |-> m, lives |-> lives, used |-> used,
   established |-> FALSE, recovered |-> FALSE, config_ok |-> FALSE,
   read_established |-> FALSE, mirror |-> 0, live_ids |-> {}, dirty |-> FALSE,
   candidates |-> {}, late |-> {}]

----------------------------------------------------------------------------
(* What a read over the relays in `s' returns.                                *)

Served(s) == {i \in DOMAIN tokens : tokens[i].on \cap s # {}}
live_token_event_ids(s) ==
  {i \in Served(s) : \A j \in Served(s) : i \notin tokens[j].del}
reconcile_token_set(s) == UNION {tokens[i].proofs : i \in live_token_event_ids(s)}

lww_head(s) ==
  IF s = {} THEN NoHead
  ELSE LET newest == CHOOSE r \in s : \A q \in s : heads[r].at >= heads[q].at
       IN heads[newest]

Authoritative(s) == Cardinality(s) >= read_k

(* A call that does not reach every relay, or does not succeed, is a fault.   *)
Missed(s) == IF s = Relays THEN 0 ELSE 1
Failed(outcome) == IF outcome.ok THEN 0 ELSE 1
Faulty(n) == faults' = faults + n /\ faults' <= MaxFaults

\* mutation: a head is trusted whatever quorum served it.
should_establish_counter_Thin(resume, config_ok, floor, token_ok, token_empty) ==
  resume \/ floor > 0 \/ (config_ok /\ token_ok /\ token_empty)

(* The four-state decision: resume, defer, establish at 0, establish at a head. *)
should_establish_counter(resume, config_ok, floor, token_ok, token_empty) ==
  \/ resume
  \/ config_ok /\ (floor > 0 \/ (token_ok /\ token_empty))

(* publish_config: a replaceable event, so an acking relay keeps only it.     *)
publish_config(counter, acks) ==
  LET at == 1 + lww_head(Relays).at
  IN heads' = [r \in Relays |-> IF r \in acks THEN [at |-> at, counter |-> counter]
                                 ELSE heads[r]]

----------------------------------------------------------------------------
(* The wallet.  Every operation that makes a proof reserves its index first,  *)
(* so a failed call burns one; the mint never signs an index twice.           *)

Burnt(w) == [w EXCEPT !.counter = @ + 1]
Made(w) == [w EXCEPT !.counter = @ + 1, !.held = @ \cup {w.counter + 1},
                     !.known = @ \cup {w.counter + 1}]
Signs(w, m) == w.counter + 1 \notin m.signed
Signed(w, m, inputs) ==
  [signed |-> m.signed \cup {w.counter + 1}, spent |-> m.spent \cup inputs]

Outcome(ok, w, m) == [ok |-> ok, w |-> w, mint |-> m]

(* The ways a derivation can end; `inputs' are the proofs it swaps.           *)
Derivations(w, m, inputs) ==
  IF w.counter = MaxIndex THEN {}
  ELSE {Outcome(FALSE, Burnt(w), m)} \cup
       {o \in {Outcome(TRUE, Made(w), Signed(w, m, inputs))} : Signs(w, m)}

(* restore_from_relay_backup: novel proofs only, and of these the ones the    *)
(* mint confirms unspent, swapped for a proof of this wallet.                 *)
Restores(w, m, candidates, established) ==
  LET novel == candidates \ w.known
      importable == novel \ m.spent
      nothing == Outcome(TRUE, w, m)
      degraded == Outcome(FALSE, w, m)
  IN IF novel = {} THEN {nothing}
     ELSE {degraded} \cup
          (IF importable = {} THEN {nothing}
           ELSE IF established THEN Derivations(w, m, importable) ELSE {})

(* strict_drain_unissued_after: nothing left, a quote left, or one minted.    *)
Drains(w, m) ==
  {Outcome(TRUE, w, m), Outcome(FALSE, w, m)} \cup
  {o \in Derivations(w, m, {}) : o.ok}

----------------------------------------------------------------------------
Init ==
  /\ mint = [signed |-> {}, spent |-> {}]
  /\ store = [m \in Machines |->
                [counter |-> 0, held |-> {}, inflight |-> {}, known |-> {}]]
  /\ tokens = <<>>
  /\ heads = [r \in Relays |-> NoHead]
  /\ \E m \in Machines : run = Down(m, 0, {})
  /\ flush = NoFlush
  /\ retry = NoRetry
  /\ faults = 0

MayRun(m) == m = run.machine \/ m \notin run.used \/ Returns

(* Boot reads both planes and opens the wallet: the mirror is the larger of   *)
(* floor and local counter, and the derivation counter is lifted to it when   *)
(* the decision is to establish.                                              *)
BootRead(m) ==
  /\ run.phase = "down" /\ run.lives < MaxLives
  /\ MayRun(m)
  /\ \E c, t \in SUBSET Relays :
       LET local == store[m].counter
           floor == Larger(lww_head(c).counter, local)
           established == should_establish_counter(local > 0, Authoritative(c), floor,
                                                   Authoritative(t), Served(t) = {})
       IN /\ run' = [Down(m, run.lives + 1, run.used \cup {m}) EXCEPT
                       !.phase = "restore", !.established = established,
                       !.config_ok = Authoritative(c),
                       !.read_established = Authoritative(t), !.mirror = floor,
                       !.live_ids = Served(t), !.dirty = TRUE,
                       !.candidates = reconcile_token_set(t)]
          /\ store' = IF established THEN [store EXCEPT ![m].counter = floor] ELSE store
          /\ Faulty(Missed(c) + Missed(t))
  /\ UNCHANGED <<mint, tokens, heads, flush, retry>>

Converged(read_ok, restored, drained) == read_ok /\ restored.ok /\ drained.ok

(* Boot restores and drains, opens the second latch, publishes the counter    *)
(* head when the config read was authoritative, and starts the flusher and,   *)
(* if anything is missing, the retry.                                         *)
BootRestore ==
  /\ run.phase = "restore"
  /\ \E restored \in Restores(store[run.machine], mint, run.candidates, run.established) :
     \E drained \in IF run.established THEN Drains(restored.w, restored.mint)
                    ELSE {[restored EXCEPT !.ok = FALSE]} :
       LET recovered == run.established
                        /\ Converged(run.read_established, restored, drained)
           mirror == Larger(run.mirror, IF run.established THEN drained.w.counter ELSE 0)
       IN /\ store' = [store EXCEPT ![run.machine] = drained.w]
          /\ mint' = drained.mint
          /\ run' = [run EXCEPT !.phase = "up", !.recovered = recovered,
                       !.mirror = mirror, !.candidates = {}]
          /\ \E acks \in SUBSET Relays :
               /\ IF run.config_ok /\ recovered
                  THEN publish_config(mirror, acks)
                  ELSE acks = Relays /\ UNCHANGED heads
               /\ Faulty(Missed(acks) + Failed(restored)
                         + IF restored.ok /\ run.established THEN Failed(drained) ELSE 0)
          /\ retry' = IF recovered THEN NoRetry
                      ELSE [NoRetry EXCEPT !.phase = "wait", !.attempts = MaxAttempts]
  /\ UNCHANGED <<tokens, flush>>

FailedAttempt ==
  [NoRetry EXCEPT !.attempts = retry.attempts - 1,
                  !.phase = IF retry.attempts > 1 THEN "wait" ELSE "off"]

(* try_establish_counter, the reads and the decision.  A counter that is      *)
(* already established skips the decision, floor included.                    *)
RetryRead ==
  /\ run.phase = "up" /\ retry.phase = "wait"
  /\ \E c, t \in SUBSET Relays :
       LET floor == lww_head(c).counter
           fresh == ~run.established
                    /\ should_establish_counter(FALSE, Authoritative(c), floor,
                                                Authoritative(t), Served(t) = {})
           lifted == Larger(floor, run.mirror)
       IN /\ run' = [run EXCEPT !.read_established = Authoritative(t),
                       !.established = @ \/ fresh,
                       !.mirror = IF fresh THEN lifted ELSE @]
          /\ store' = IF fresh
                      THEN [store EXCEPT ![run.machine].counter = Larger(@, lifted)]
                      ELSE store
          /\ retry' = IF run.established \/ fresh
                      THEN [retry EXCEPT !.phase = "restore",
                              !.candidates = reconcile_token_set(t),
                              !.token_ok = Authoritative(t)]
                      ELSE FailedAttempt
          /\ Faulty(Missed(c) + Missed(t))
  /\ UNCHANGED <<mint, tokens, heads, flush>>

(* try_establish_counter, the restore, the drain and the second latch.  The   *)
(* proofs it brings in do not mark the backup dirty.                          *)
RetryRestore ==
  /\ run.phase = "up" /\ retry.phase = "restore"
  /\ \E restored \in Restores(store[run.machine], mint, retry.candidates, TRUE) :
     \E drained \in Drains(restored.w, restored.mint) :
       LET converged == Converged(retry.token_ok, restored, drained)
       IN /\ store' = [store EXCEPT ![run.machine] = drained.w]
          /\ mint' = drained.mint
          /\ run' = [run EXCEPT !.recovered = @ \/ converged,
                       !.mirror = Larger(@, drained.w.counter),
                       !.late = @ \cup (drained.w.held \ store[run.machine].held)]
          /\ retry' = IF converged THEN NoRetry ELSE FailedAttempt
          /\ Faulty(Failed(restored) + Failed(drained))
  /\ UNCHANGED <<tokens, heads, flush>>

----------------------------------------------------------------------------
(* The spend path: the wallet first, then the dirty flag.                     *)

\* mutation: a provider that mints past the decorator does not mark it dirty.
Derive_Quiet(m, inputs, w) ==
  \E o \in Derivations(w, mint, inputs) :
    /\ store' = [store EXCEPT ![m] = o.w]
    /\ mint' = o.mint
    /\ run' = [run EXCEPT !.mirror = Larger(@, o.w.counter)]
    /\ Faulty(Failed(o))

Derive(m, inputs, w) ==
  \E o \in Derivations(w, mint, inputs) :
    /\ store' = [store EXCEPT ![m] = o.w]
    /\ mint' = o.mint
    /\ run' = [run EXCEPT !.mirror = Larger(@, o.w.counter), !.dirty = @ \/ o.ok]
    /\ Faulty(Failed(o))

(* A payment is redeemed or minted: redeem_foreign, a settlement.             *)
Receive ==
  /\ run.phase = "up" /\ run.established
  /\ Derive(run.machine, {}, store[run.machine])
  /\ UNCHANGED <<tokens, heads, flush, retry>>

(* mint_send_token: the proof leaves the spendable set until it is redeemed   *)
(* by the payee or taken back.                                                *)
mint_send_token(p) ==
  /\ run.phase = "up" /\ p \in store[run.machine].held \ mint.spent
  /\ store' = [store EXCEPT ![run.machine].held = @ \ {p},
                            ![run.machine].inflight = @ \cup {p}]
  /\ run' = [run EXCEPT !.dirty = TRUE]
  /\ UNCHANGED <<mint, tokens, heads, flush, retry, faults>>

(* revoke_send: an unredeemed send is swapped back.                           *)
revoke_send(p) ==
  /\ run.phase = "up" /\ run.established
  /\ p \in store[run.machine].inflight \ mint.spent
  /\ Derive(run.machine, {p}, store[run.machine])
  /\ UNCHANGED <<tokens, heads, flush, retry>>

(* The payee redeems, whether or not the sender still runs.                   *)
Redeem(p) ==
  /\ \E m \in Machines : p \in store[m].inflight
  /\ p \notin mint.spent
  /\ mint' = [mint EXCEPT !.spent = @ \cup {p}]
  /\ UNCHANGED <<store, tokens, heads, run, flush, retry, faults>>

----------------------------------------------------------------------------
(* The flusher: Nip60BackupFlusher::flush over Nip60Store::rollover.  Leaving *)
(* early re-arms the dirty flag.                                              *)

Rearm == run' = [run EXCEPT !.dirty = TRUE] /\ flush' = NoFlush

FlushBegin ==
  /\ run.phase = "up" /\ flush.phase = "idle" /\ run.dirty
  /\ run' = [run EXCEPT !.dirty = FALSE]
  /\ flush' = [phase |-> "gate", proofs |-> store[run.machine].held,
               del |-> run.live_ids, new |-> 0]
  /\ UNCHANGED <<mint, store, tokens, heads, retry, faults>>

\* mutation: the rollover does not wait for the recovery.
MayRollover_Early == run.read_established
MayRollover == run.read_established /\ run.recovered

(* The new event names what it supersedes.  A relay may acknowledge it and    *)
(* never serve it, hence `kept'.                                              *)
RolloverPublish ==
  /\ flush.phase = "gate"
  /\ \/ ~MayRollover /\ Rearm /\ UNCHANGED <<tokens, faults>>
     \/ /\ MayRollover /\ Len(tokens) < MaxEvents
        /\ \E acks \in SUBSET Relays : \E kept \in {acks, {}} :
             /\ tokens' = IF kept = {} THEN tokens
                          ELSE Append(tokens, [proofs |-> flush.proofs,
                                               del |-> flush.del, on |-> kept])
             /\ IF Cardinality(acks) >= write_k
                THEN /\ flush' = [flush EXCEPT !.phase = "confirm", !.proofs = {},
                                    !.new = IF kept = {} THEN 0 ELSE Len(tokens) + 1]
                     /\ UNCHANGED run
                ELSE Rearm
             /\ Faulty(Missed(acks) + Missed(kept))
  /\ UNCHANGED <<mint, store, heads, retry>>

(* An event no relay holds any more says nothing.                             *)
Forgotten == [proofs |-> {}, del |-> {}, on |-> {}]
Pruned(ids, relays) ==
  [i \in DOMAIN tokens |->
     IF i \notin ids THEN tokens[i]
     ELSE IF tokens[i].on \subseteq relays THEN Forgotten
     ELSE [tokens[i] EXCEPT !.on = @ \ relays]]

Retrievable(s) == flush.new \in Served(s)

(* The read-after-write, the deletion it allows, and the commit.              *)
RolloverConfirm ==
  /\ flush.phase = "confirm"
  /\ \E s, honoured \in SUBSET Relays :
       /\ IF Retrievable(s)
          THEN /\ tokens' = Pruned(flush.del, honoured)
               /\ run' = [run EXCEPT !.live_ids = {flush.new}]
               /\ flush' = NoFlush
          ELSE honoured = Relays /\ UNCHANGED tokens /\ Rearm
       /\ Faulty(Missed(s) + Missed(honoured))
  /\ UNCHANGED <<mint, store, heads, retry>>

----------------------------------------------------------------------------
(* The end of a life: flush_estate after a graceful stop, or a crash.         *)

Stopped ==
  /\ run' = Down(run.machine, run.lives, run.used)
  /\ flush' = NoFlush /\ retry' = NoRetry
  /\ UNCHANGED <<mint, store, tokens>>

\* mutation: the estate publish does not ask for the recovery.
flush_estate_Ungated ==
  /\ run.phase = "up" /\ flush.phase = "idle"
  /\ \E acks \in SUBSET Relays : publish_config(run.mirror, acks) /\ Faulty(Missed(acks))
  /\ Stopped

(* The VM has halted and the last flush has been awaited.                     *)
flush_estate ==
  /\ run.phase = "up" /\ flush.phase = "idle"
  /\ IF run.recovered
     THEN \E acks \in SUBSET Relays : publish_config(run.mirror, acks) /\ Faulty(Missed(acks))
     ELSE UNCHANGED <<heads, faults>>
  /\ Stopped

Crash == run.phase # "down" /\ Stopped /\ UNCHANGED <<heads, faults>>

Next ==
  \/ \E m \in Machines : BootRead(m)
  \/ BootRestore \/ RetryRead \/ RetryRestore
  \/ Receive
  \/ \E p \in Indices : mint_send_token(p) \/ revoke_send(p) \/ Redeem(p)
  \/ FlushBegin \/ RolloverPublish \/ RolloverConfirm
  \/ flush_estate \/ Crash

Spec == Init /\ [][Next]_vars

----------------------------------------------------------------------------
(* Properties.                                                                *)

WalletType ==
  [counter : 0 .. MaxIndex, held : SUBSET Indices, inflight : SUBSET Indices,
   known : SUBSET Indices]

(* Every variable holds a value of its kind, and what a wallet can spend or   *)
(* has in flight is among the proofs it knows.                                *)
TypeOK ==
  /\ mint \in [signed : SUBSET Indices, spent : SUBSET Indices]
  /\ store \in [Machines -> WalletType]
  /\ \A m \in Machines : store[m].held \cup store[m].inflight \subseteq store[m].known
  /\ \A i \in DOMAIN tokens :
       tokens[i] \in [proofs : SUBSET Indices, del : SUBSET DOMAIN tokens, on : SUBSET Relays]
  /\ \A r \in Relays : heads[r].counter \in 0 .. MaxIndex
  /\ run.phase \in {"down", "restore", "up"} /\ run.machine \in Machines
  /\ run.mirror \in 0 .. MaxIndex /\ run.live_ids \subseteq DOMAIN tokens
  /\ flush.phase \in {"idle", "gate", "confirm"}
  /\ retry.phase \in {"off", "wait", "restore"} /\ retry.attempts \in 0 .. MaxAttempts

Durable(relays) == Cardinality(relays) >= write_k

(* Every quorum of relays yields a counter head that is at least i; so it is   *)
(* once a write quorum has acknowledged a head that is.                        *)
QuorumFloor(i) == \A s \in SUBSET Relays : Authoritative(s) => lww_head(s).counter >= i

(* A wallet that may derive starts above every counter head that no quorum of *)
(* relays misses, and at zero only if no durable backup holds a proof: the    *)
(* establish-or-defer decision over two read quorums.                         *)
DerivesAboveFloor ==
  run.established =>
    /\ \A i \in Indices : QuorumFloor(i) => store[run.machine].counter >= i
    /\ store[run.machine].counter = 0 =>
         \A e \in DOMAIN tokens : Durable(tokens[e].on) => tokens[e].proofs = {}

(* Once nothing is dirty and no flush is under way, every proof the wallet    *)
(* can spend is in a live backup event, but for those the retry itself        *)
(* brought in: the dirty protocol of the flusher loses no mutation.           *)
QuietMirror ==
  run.phase = "up" /\ ~run.dirty /\ flush.phase = "idle" =>
    store[run.machine].held \ run.late \subseteq reconcile_token_set(Relays)

DurableProofs ==
  UNION {tokens[i].proofs : i \in {j \in live_token_event_ids(Relays) : Durable(tokens[j].on)}}

(* A proof of a durable live event leaves the backup only when it is spent or *)
(* the running wallet knows it: a rollover never deletes a backup that was    *)
(* not restored first.                                                        *)
BackupNeverLost ==
  [][\A p \in DurableProofs : p \in (reconcile_token_set(Relays))'
                              \/ p \in mint'.spent \/ p \in store'[run'.machine].known]_vars

(* Whatever quorum of relays is read, the counter head it yields is never     *)
(* replaced by a lower one ("the lww-head never regresses in correct          *)
(* operation").                                                               *)
HeadNeverRegresses == [][\A i \in Indices : QuorumFloor(i) => QuorumFloor(i)']_vars

(* A boot whose two reads both reached their quorum leaves the counter         *)
(* established ("re-establishes on the next boot that reaches >=k").           *)
QuorumBootEstablishes ==
  run.phase = "up" /\ run.config_ok /\ run.read_established => run.established
=============================================================================
