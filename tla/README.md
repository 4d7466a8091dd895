# A TLA+ model of kirby-node

`kirby-node` is a daemon that runs an autonomous agent (the *genome*) in a
sandbox and owns everything the genome must not: its money, its signing key,
its way out to the network. The genome asks through one RPC,
`authorize_capability`; the daemon answers with a receipt. Several daemons form
a fleet that shares agents over nostr relays, so that one of them takes an agent
over when its host dies.

This directory models that daemon in TLA+, checks the models with TLC on small
instances, and proves the main results for every value of the constants with
TLAPS. `PROJECT.json` is the index: components, runs, mutants, the map from
each definition to the source lines it stands for, hazards, disagreements
between code and comments, theorems.

## 1. Inventory

| Component | Source | State it keeps | Operations | Talks to |
|---|---|---|---|---|
| treasury | `treasury.rs` | sled trees: balance, debit ledger, credit ledger, poll index; in memory: rent | `debit_and_record`, `record_charge_atomic`, `debit_metered`, `credit_verified`, `reconcile_to_observed`, `economics_snapshot`, lookups | called by gateway, meter, boot |
| gateway money path | `gateway.rs` `authorize_capability` and its forks | handlers in flight, `egress_debit_gate`, `wseq_floor` | five acts: generic, memory, publish, fetch, charge | treasury, rail, store, settlement provider, lease |
| settlement | `gateway.rs` `settle_charge`, sweep; `rail.rs` providers | `settle_locks`, calls in flight; the mint's quotes; the wallet's proofs | settle, sweep, mint, swap, recover | treasury, mint, inbox |
| metering | `meter.rs`, `metered_run.rs`, `meter_egress.rs` | burn counters, halt flag | tick, floor halt, kill | treasury, VM |
| lease and failover | `relay_lease.rs`, `lease.rs`, `failover_detect.rs` | per observer: last lease of each agent; grace dwell | claim, heartbeat, observe, fence, detect | relay, fleet supervisor, gateway's step 0 |
| fleet supervision | `fleet.rs`, `fleet_supervisor.rs`, `fleet_reconcile.rs`, `main.rs` | hosted agents, slots, back-off | launch at a term, confirm, heartbeat, reap, reconcile | lease, VM, relay |
| nerve and inbox | `nerve.rs` | inbound queue, dedupe set, poll cursor | enqueue, poll, ack | relay, settlement, genome |
| genome loop | `kirby-genome` | checkpoint, memory, keys of its acts | poll, answer, save | gateway |
| spawn over nostr | `spawn.rs`, `funding.rs`, `remote_holder.rs` | seen requests, pending fundings | request, fund, provision, reply | relay, treasury, fleet |
| keyset provisioning, quorum signing | `keyset_provisioning.rs`, `quorum_signer.rs`, `qsigner.rs`, `quorum_ecdh.rs`, ... | shares, round state | provision, cosign round | custody, relay |
| custody | `kirby-custody` | guardians' nonces and shares, coordinator's round | commit, sign, aggregate, reshare | quorum signer |
| NIP-60 wallet backup | `nip60*.rs` | dirty flag, counter lease, relay snapshot | flush, restore, reconcile | wallet, relay |
| hibernate and wake | `hibernate/*`, `checkpoint.rs` | sealed bundle, held shares, term | seal, hold, release, wake | lease, custody |
| boot and run | `boot.rs`, `run_agent.rs`, `full_loop_run.rs` | the driver's place, the VM, the tasks and their handles of the treasury | boot, metered run, bootstrap, resume, teardown | all |
| memory engrams | `engram.rs` | head per store, write tokens | write, read | gateway |
| machines and host | `firecracker.rs`, `vz.rs`, `sandbox.rs`, `network.rs`, ... | processes, devices | start, stop | host |
| configuration, wire types | `config.rs`, `kirby-proto` | none | parse, validate | all |

What is hard about it:

* **Concurrency.** `authorize_capability` is an async handler on a
  multi-threaded runtime. It reads the lease and the balance, awaits the network,
  and only then debits. Other handlers, the meter's tick, the settlement poller
  and a dropped client connection interleave at each of these points. Two locks
  (`egress_debit_gate`, the per-charge `settle_locks`) guard parts of it, and
  neither guards all of it.
* **Failure.** The process may die between an outward effect and its record.
  A mint may have signed and its answer be lost. A store may have written and its
  answer be lost. The genome may be resumed from an old checkpoint and replay.
* **Ordering.** Relays deliver late, twice, out of order, or not at all; the
  fleet's leases are read from them.
* **Time.** A lease is stale by a local clock; a takeover waits a grace, confirms
  after a settling pause, and may race a revived holder.
* **Numbers.** Balances are `u64`; a credit that overflows arrives after its token
  has been redeemed.

What makes each part correct is stated with its module below; what is hard to
test is listed line by line under `hazards` in `PROJECT.json`.

## 2. The modules

| Module | Extends | Content |
|---|---|---|
| `Treasury` | instantiates `AgentAccount` | the stores and each transaction, as operators other modules conjoin into their actions |
| `AgentAccount` | - | the account of an agent, the abstract specification of the treasury and of all that uses it |
| `TreasuryBooks` | `Treasury` | the treasury alone, driven by any client in any order, and the reads of the economics snapshot |
| `Gateway` | `Treasury` | `authorize_capability`, one action per stretch between awaits |
| `Settlement` | `Treasury` | `settle_charge`, its lock map, both providers, the poller, the mint |
| `FleetLease` | - | the leases of a fleet, failover and the launch fence, over one relay |
| `FleetHost` | - | one host over its lives: slots, registry, ledger, keystores, reconcile, launches, reaps |
| `Cosign` | instantiates `SigningOracle` | the signing round of a quorum key over a relay |
| `SigningOracle` | - | what a quorum key promises, the abstract specification of `Cosign` |
| `Inbox` | - | the daemon's inbound queue, as operators |
| `GenomeLoop` | `Inbox` | the three loops of the genome that serve the queue, with the journal of their keys |
| `WalletBackup` | - | the relay backup of the wallet: boot, restore, retry, flush, rollover, estate |
| `Hibernate` | - | seal, holders, wake request, reconstitution |
| `NodeRun` | - | an agent's process: boot, metered run, bootstrap or resume, teardown |
| `SettlementProofs`, `FleetLeaseProofs`, `FleetHostProofs`, `CosignProofs`, `HibernateProofs`, `WalletBackupProofs` | the module | theorems and proofs |
| `AgentProofs` | `NodeRun`, `GenomeLoop` | theorems and proofs about the driver and the loops it runs |
| `MC*` | the module | constants, workloads, symmetry |
| `GatewayProofs` | `Gateway`, `TreasuryBooks` | the lemmas about the treasury's transactions, and the theorems and proofs of both |

### Treasury

One sled database: `balance`; `ledger` (key to performed record: cost, balance
after, charge id, request hash); `credit_ledger` (charge to credit record or one
of two terminal markers); `issued_charges` (the poll index); `rent_sats`, which is
in memory and is zero after `Open`. Each transaction closure of the source is one
operator that names its outcome (`DebitOutcome`: *Debited*, *Duplicate*,
*Insufficient*) and one that applies it. `MaxSats` plays the part of `u64::MAX`, so
that addition can overflow within a small instance; saturating operations of
the source are `SaturatingAdd` and `SaturatingSub`. `debit_metered` is two steps in
the source (the transaction, then the atomic add to the rent); `TreasuryBooks`
keeps them apart, `Gateway` takes them together because it does not read the rent.

`AgentAccount` is what the stores are for: funds that are spent from, once for an act; that
receive once for a payment; and that lose or gain nothing else but rent and adjustments. The
mapping `Account` in `Treasury` takes the balance as the funds, the cost in a ledger row as what
its act has cost, what was credited as what a resolved charge has brought (nothing if it
overflowed). `TreasuryBooks`, `Gateway` and `Settlement` are each shown to implement it
(`KeepsTheAccount`): their steps are transactions of the treasury or leave it alone.

A transaction and the flush after it are one step. A crash between the two could
lose a transaction that was not flushed; sled's log makes what survives a prefix, and the
caller has not been told anything yet, which to the caller is a crash just before.

### Gateway

`pc` names where a handler stands: `admit` (steps 0, 1, 2: fence, dedupe,
allowlist), `gate` (the balance read and its checks), `reserve` (a publish debits
first), `lock` and `regate` (a fetch takes `egress_debit_gate` and reads the balance
again), `perform` (the await), `record` (the debit of the actual cost). Every
handler may be dropped at an await (`Cancel`), the daemon may die anywhere
(`Crash`), the meter may charge rent and halt the VM (`Tick`), and the fence's
verdict may change (`LeaseVerdict`). The world outside is `performed` (how often
the outward effect of a key happened), `head` (what the memory store serves),
`tokens` (the store client's committed write tokens, lost in a restart) and
`quotes` (charge ids handed out).

Abstractions: steps 0 to 2 are one action, since the three reads touch state that
only a lease verdict or another handler's record changes and each alone decides
the same answer; the balance a denial reports is left out; free memory reads
change nothing and are left out; the receipt of a publish is read from its row,
which is what the handler holds in a local. What the genome may send is the
constant `Requests`; the allowlist's verdict, the payload guard's and the host's
estimate are fields of a request, because the code computes them from the request and
the configuration alone.

### Settlement

`settle_charge` in its order: take or insert the charge's lock in the map, wait
for the mutex, look the charge up, ask the provider, credit, notify, then the
drops: `SettleLockCleanup`, the mutex guard, the reference. `LightningSettlement` is
`CheckQuote`, `Mint` and the recovery of an issued quote from what the wallet still
holds; `CashuSettlement` is `Receive`. `MintInterrupted` is the cut between the
mint's signature and the answer, with the proofs stored or not. The poller is the one
caller in production; other settlers stand for the RPC, which takes the same path.
Boot wires one rail: the variable `rail` is chosen initially and never changes.

### FleetLease

Each agent has one lease on the relay, an addressable event signed by the
agent's quorum: holder, term, issue time. Its host publishes it again every
heartbeat. Every node folds what it is sent into `observed`
(`observe_occupancy`), and its failover scan (`Scan`) turns leases that went
stale into at most one takeover: the observer-blind stand-down (`Sighted`), the
grace kept in `grace_state`, the age bound, the back-off, the gates of
`admit_takeover`. The launch that follows is four steps of the node's one task,
which meanwhile neither heartbeats nor observes nor reaps: the claim lands on the
relay (`ClaimLands`), the settling pause, the re-read (`latest_lease`), the
verdict of `confirm_takeover_win` (`LaunchTenant`, `LaunchDenied`); it may fail at
either side (`LaunchFails`). A tenant's process may exit at any time (`Die`) and
is hosted until `reap_dead`.

The relay keeps one event per agent, the latest; of two of the same second
either may win (the lower id does). What it accepted may reach a node in any
order, late, twice or never. `network` says how bad it gets. On a *free* network
nothing is promised: heartbeats stop, answers are lost, claims fail after they
landed. On a *timely* one a second ends only when every idle node has done what its
loop had to do in it (`Overdue`): reaped, published what is due, folded what it
was sent, scanned; a node in a launch has taken each step that it could. The
order within the second stays free. Real periods are 2 s (reap), 10 s
(heartbeat), the scan's setting, 30 s (TTL); the model's second stands for the
longest of the periods that have to fit into the TTL.

Abstractions: signatures and the `d` tag are opaque, since every event here is a
fleet member's own; a keystore is loadable or not (`Keystores`); the image
allowlist and the NIP-40 expiry, which is several TTLs, are left out; all hosts
read one clock. A static launch and a spawn are not actions here, so term 1
belongs to the agent's first host.
What it leaves open about a host's own disk is `FleetHost`.

### FleetHost

One host whose supervisor may be killed at any step and started again while its
tenants, processes of their own, run on. On disk: the allocator's slots (`live`), the
launch registry (`records`), the spawn ledger (`spawned`), the keystores; in memory:
`tenants` and whatever the supervisor is doing. A start observes the leases
(`Observe`), judges every record (`Judgement`), applies the verdicts
(`re_adopt`, or the five persisted steps of `reap_orphan`), launches the static tenants
(`launch_all`, with its rollback) and enters the loop: spawn requests, takeovers,
`reap_dead`. A launch is its persisted steps in order: slot, shares, anchor, claim,
process, record; each may fail and unwinds by `fail_launch` or `GiveBack`. The keystore's
files are written in place: an anchor whose write failed half way is there and does not
load (`Torn`), one whose `chmod` failed loads and fails the launch all the same
(`SaveAnchor`). Cleaning a keystore may fail too, which is only logged (`ReapClean`), and
the reap goes on with files left behind.

What a lease says is left open, since any answer may come and `FleetLease` is about the
leases. Left out are the checks that only refuse (authorization, rate limit, image,
funding, the age of a request). The share files of a keyset are one; the persisting of
the registry may fail only at the slot; `kill_and_reap_all` takes a tenant in one step; a
process id is not used twice. `cut` remembers the agents whose launch was killed
between the slot and the record, since after that the record no longer tells the truth
(`HostDoubled.cfg`).

### Cosign and SigningOracle

A caller of `QuorumSigner` runs a ceremony with one subset of the holders at a time:
fresh session, a nonce commitment from each, the package to each, a share from each, the
aggregate; when a holder fails, the next subset. Each exchange waits for one reply in the
holder's queue (`queue`), and a reply that does not fit ends the subset. A holder keeps
nonces by session and a replay guard, both in memory. The relay (`wire`) loses, delays,
reorders and duplicates; a frame that is lost is one whose wait ends first. Coordinator
and holders restart; the sessions of a new life count from 0 again. `Expire` is the
window passing. A frame is stamped by the coordinator's clock and the guard's entry by the
holder's, so with the coordinator ahead the entries go first and the frames stay fresh for a
while: `Expire` drops both, or the entries alone. Skew the other way refuses frames early,
which is a loss.

`SigningOracle` says what is promised: a message is emitted only while its caller waits
for it and after a threshold of holders endorsed it, each by its own share. `Cosign`
implements it by the mapping in `Oracle`: `asked` is the message of each ceremony,
`endorsed` the shares made. The cryptography is abstract: shares of one package by all its signers
aggregate, others do not. Not modelled: the authorizer's lease view, distributed signing of
one share (off by default), a dishonest coordinator. One caller signs at a time, which
the callers of the signer arrange (`relay_transport.rs:374-378`).

### Inbox and GenomeLoop

`Inbox` is `InboundQueue`: bounded, oldest dropped first, a gift wrap admitted once, pruned
by the reader's cursor. A producer takes its number before it takes the lock (`push_typed`,
`Enqueue`), so the queue is a set ordered by the numbers; which of two racing events a full
queue drops is the one difference to its order of arrival. `Racing` says whether two
producers may stand there at once. `GenomeLoop` drives it with `oracle_loop`, `earn_loop` and the
direct messages of `capable_loop`. A tick takes the oldest event it wants, thinks, charges, sends;
each of these calls is keyed by the tick's `seq` and may be lost before or after the
daemon performed it (`ThinkTransient`, `ChargeLost`, `ReplyLost`), which ends the tick without
committing; the replay then finds the journal's row. The poison bound gives up an event whose THINK
fails again and again. A reboot empties queue, cursor and waiting-set, and hands `capable_loop`
its checkpoint or not; the loop submits the `seq` it came up with at once, so that after a
lost checkpoint the daemon may hold a lower one than before.

Abstractions: what a customer wrote is chosen at the start and the relay delivers it at
any time; prompts, attestations, feeds and cached answers have no content; the gift-wrap memory
never evicts (its cap is far above the queue's); a mission tick of `capable_loop` is a
THINK and perhaps a checkpoint, in one step with the tick; an earn loop's charge reaches the
customer out of band.

### WalletBackup

A wallet derives each proof from a counter, so a proof is named by its index. Two
latches of `run` guard a takeover: `established` (may derive) and `recovered` (may publish).
`BootRead` reads token events and counter heads from some of the relays, and opens,
restores or defers; `BootRestore`, `RetryRead` and `RetryRestore` do the restore, the import
of novel unspent proofs and the drain; the flusher is three steps over its awaits
(`FlushBegin`, `RolloverPublish`, `RolloverConfirm` with the prune); `flush_estate` publishes
the head at a graceful stop; a crash may come anywhere. A relay may miss a write,
acknowledge and never serve it, or not honour a delete; the mint may fail.

Abstractions: one keyset and one-unit proofs; a restore swaps into one output; what the drain
brings in is arbitrary; one host runs the agent at a time, which is the lease's
business. Undecryptable events, the mint allowlist, floors with holes, the
refusal of an insolvent boot, the recovery of cdk's sagas, the detached fallback flush, ties
of one second and lost answers of a committed swap are left out.

The floor is stated of quorums (`QuorumFloor`): a head counts for `DerivesAboveFloor` and
`HeadNeverRegresses` when no read quorum misses it, whichever relays hold which of several
heads. `Returns` says whether a host that lost the agent may be given it again with its old
store; the run and the two theorems about the floor have it `FALSE`, and section 4 says what
happens otherwise.

### Hibernate

`seal` in its order: quiesce and persist, split, distribute to each holder, local
verify, publish, confirm, and then either the seed is wiped or the holders are frozen one by one
and a tombstone goes out. It may fail at every step and its future may be dropped at every await
(`Cancelled`), after which the caller has the epoch it had. A holder's record is
replaced by a higher epoch, kept at an equal one, and carries one lease. The relay keeps the
newest event; what was published may arrive late (`Arrives`) or never. A waker fetches
what the relay shows and reconstitutes later: leases from the holders, a quorum that
guards the request's digest, shares bound to the request, the bundle.

The shares of one split stand for its commitments: `split` numbers the splits, each of
which draws a fresh polynomial. The steps of `seal` per holder and a whole `reconstitute`
are atomic, but for a waker that dies on the way and leaves a prefix of its leases; that two
processes hold one holder's file open at once is the gap that `unseal.rs:63` documents.
Publishes have increasing times, while the code stamps whole seconds (`wake.rs:61-70`): two
publishes of one agent in the same second are not modelled. On such a tie a relay keeps the
lower id, so the late tombstone of an earlier seal could replace the request of the
next; in production the delays of the confirm polls separate them. A woken agent that seals again, a crash of the sealing
process and the release history are left out. Nothing but tests calls this library yet.

### NodeRun

`at` is the program counter of the one driver: `run_agent::run` with
`boot_and_observe` and `metered_run::run` inside it, one action per await that others can
interleave with. Beside it run what boot spawned. `holders` are the parts of the process that hold a
handle of the treasury, whose sled lock is exclusive: the driver (`main`), the serve task,
a connection of the guest, the settlement poller. Dropping the `ServeGuard` aborts the serve
task and the poller without waiting for them (`GuardDropped`, `TaskEnds`); a connection ends when
its peer is gone (`Hangup`). `vmm` is the process the sandbox started; it outlives
the driver, and a process that is killed leaves it running. `wallet` counts what landed in the wallet, and
`backup`, `estate` are values of that count, so that a snapshot covers an act when it is
no smaller. Checkpoints are numbered in the order the guest submitted them, which is the order
of their files' modification times. That assumes a file system whose times are finer than
the time between two puts and a clock that is not set back; of equal times
`latest_stored_checkpoint` takes the first file of the directory (`run_agent.rs:993`).

`HaltVm` and `ConfirmRestore` note in the ghost `atHalt` what had landed. That
`EstateCovered` speaks of that moment and not of the return is the code's doing: the poller is
aborted only after the awaited flush, so a mint in between is in no snapshot
but the fallback's (`metered_run.rs:404` says "no further spend-path mutations possible").
`DeathIsResumable` says that the newest file is whole when a death has been announced in order;
after a cut write it is not, `get` refuses it, and the resume fails although an older whole
checkpoint may lie beside it (`latest_stored_checkpoint` tries one file only).

Abstractions: the serialised flush of `rail.rs` is one step with one outcome, since the flush lock
makes a second flush wait for the first; a call's path through the gateway is `Gateway`'s and is here one
spend that lands or does not; the relay publishes of the lifecycle are best-effort and take no
state. The jail is named after the instance and the process, so a process that left a VMM behind starts no
other run here. The Firecracker backend is modelled, the macOS one is not.

## 3. The runs

* **TreasuryBooks** (`MCTreasuryBooks`, `TreasuryBooks.cfg`): All treasury transactions in every order, with the meter, the boot reconcile, restarts and a torn snapshot: the books balance, the poll index is exact, and the stores move as the agent's account does: an act is paid once, a payment received once, nothing else but rent and the reconcile moves the balance. 
  Checks `BooksBalance`, `IndexedIffRecorded`, `KeepsTheAccount`.
* **Gateway** (`MCGateway`, `Gateway.cfg`): Four workloads (raced publishes; completions and charges; one genome's memory writes across two restarts; fetches under their gate), with retries, cancellations, rent, a floor halt and a lease that comes and goes: at most once, paid first, within authority, receipts agree, no write is rolled back, no lock is lost. 1.07 million states.
  Checks `PublishedAtMostOnce`, `PublishPaidFirst`, `AnswersAgree`, `RecordedWriteServed`, `GateHeldInside`, `WithinAuthority`, `ReplayPerformsNothing`.
* **SettleFair** (`MCSettlement`, `SettleFair.cfg`): With the poller running, a paid charge ends up on the books or recorded as stranded. 14 thousand states, no symmetry, since it checks liveness.
  Checks `PaidIsSettled`.
* **Settlement** (`MCSettlement`, `Settlement.cfg`): On Lightning the poller and a client settle two charges, one of which overflows; on Cashu three clients with two tokens settle one; through a crash, a cut-off mint and a spend, each charge is settled by one call at a time, credited what was minted, announced once and dead to the wallet when resolved. 1.19 million states.
  Checks `OneSettlerPerCharge`, `CreditedWasMinted`, `RedeemedOnce`, `ResolvedWalletUntouched`.
* **FleetLease** (`MCFleetLease`, `FleetLease.cfg`): Two nodes, an agent whose process may die again and again on either, heartbeats, scans, fenced claims and re-reads; once on a network that loses and reorders, once on one that delivers within the second. 643 thousand states.
  Checks `RaceSettled`, `TakeoverWaits`, `FailoverInTime`, `ObservedForward`, `NoFalseTakeover`.
* **FleetHost** (`MCFleetHost`, `FleetHost.cfg`): One host started three times, killed at any step of its reconcile, its launches, its reaps or its rollback, with and without a reboot; a static tenant, a requested one, takeovers, failing steps. 752 thousand states; three lives, a tenant of the configuration and one of a request, two slots, four processes and four keysets.
  Checks `OneProcess`, `IdentityKept`, `SlotsAccounted`, `FalseReapFence`.
* **Cosign** (`MCCosign`, `Cosign.cfg`): Two requests over two lives of the coordinator, whose sessions come again, with frames of the first life delivered in the second and the replay window passing; or one request through every subset, with two waits that end with the frame lost or still to come and a holder that restarts. 1.08 million states. Three holders with a threshold of two, so that three subsets can be tried. One kind of fault per behaviour (`OneKindOfFault`): restarts, or frames that come late or twice. A later life of the coordinator tries two of the three subsets (`TwoSubsetsLater`); with all three it is 2.69 million states and holds too.
  Checks `NonceSignsOnce`, `FailureExplained`, `KeepsThePromise`.
* **GenomeLoop** (`MCGenomeLoop`, `GenomeLoop.cfg`): Two customers of each workload over a queue of two events, with producers one at a time at the queue, lost answers, full and short payments, messages that fail to send, charges that age out, a poisoned THINK and a reboot. 897 thousand states. A queue of two drops an event as soon as a third arrives.
  Checks `AnswersPaidOnce`, `NoEventSkipped`, `InboxDrains`.
* **Wallet** (`MCWalletBackup`, `Wallet.cfg`): An agent boots twice, on the same host or by takeover on another, over three relays with write and read quorums of two: partial reads, writes that miss a relay or are acknowledged and never served, mint calls that fail, crashes at every await, the retry racing the spend path and the flusher. 781 thousand states. Two derivations and two events are a backup and the rollover that supersedes it.
  Checks `DerivesAboveFloor`, `QuietMirror`, `BackupNeverLost`, `HeadNeverRegresses`.
* **Hibernate** (`MCHibernate`, `Hibernate.cfg`): Seals that fail, are revoked or are dropped at an await, retried over three holders with a threshold of two, and two wakers that fetch what the relay shows, gather leases, die, renew and race the seal, with publishes that arrive late or never. 2.62 million states. Four epochs are a sleep, an abort or a revoke before it, and a dropped call; also checked: three faults, and three wakers.
  Checks `SleepIsRecoverable`, `OneLiveRuntime`, `AwakeNotResurrected`.
* **NodeRun** (`MCNodeRun`, `NodeRun.cfg`): Two runs of an agent, bootstrap or resume, in one process or two: boots that fail at every step, a guest that dies, a meter that ends the run, halts, flushes and checkpoint writes that fail or are cut, beside a poller and calls in flight. 1.15 million states, no symmetry, since it checks liveness. Two runs are a boot that leaves something behind and the run that meets it; two checkpoints, a torn one and a whole one.
  Checks `EstateCovered`, `DeathIsResumable`, `DeadGuestEndsRun`.

Every property of a passing run has a mutant: a change of one mapped definition
that a plausible bug would make, under which TLC finds the property violated in
the same instance. So no property holds for want of behaviour.

**Bounds.** `MaxSats` is 3: large enough for two acts of different cost and for a
second credit to overflow, small enough that a balance is exhausted in two steps.
Two clients are enough for every race on one key or one balance, since each of the
races is between a reader and one writer; three callers are used where a count of
references is at stake (`Settlement`: holder, waiter, newcomer). Two restarts let a
genome go back after it has gone back. `Gateway` takes one of four workloads at a time
because a product of all of them mixes acts that share only the balance; that they
share it is what `FetchUnpaid` shows. `FleetLease` has two nodes, since a host whose
tenant died is a survivor like any other and races the second; a second agent, that
never dies, is what keeps the scans sighted. Seven seconds are a death, a takeover
(stale after 1, grace 1, pause 1), a second death and the second takeover. The free
network is cut after five seconds and three leases of the agent, within which both survivors claim
one term and the later of the two claims wins.

**Fairness.** Four instances assume any. `SettleFair`: a call that can run does run
(`WF(Call)`: the runtime polls ready tasks). The mutex is tokio's, a fair queue
(`SF(Acquire)`). The sweep reads the whole poll index on each pass and tries every
entry, and a pass that fails goes on to the next entry (`SF(Poll)`). A mint that is
asked again and again answers at last (`SF(CheckQuote)`, `SF(Mint)` of the poller);
this is an assumption on the outside, and crashes, cuts and spends stay bounded.
`GenomeLoop`: the loop never stops ticking (`WF(Tick)`: each of the loops is an unconditional
`loop` with a sleep). `InboxDrains` needs no more, because the poison bound gives up an event
whose THINK never succeeds; the direct messages of `capable_loop` have no such bound
(`capable.rs:1416`), and it leaves them out. `FleetLease` has no fairness but a timely network, a bound in the
guard of the clock: `FailoverInTime` is a deadline, which is a safety property.
`NodeRun`: each await of the driver after the meter is attached ends (`WF`: sleeps, relay calls and the VM shutdown have
timeouts), the liveness probe does not fail to read for ever (`WF(TickSeesDeath)`), and a task
that was aborted, or whose peer has gone, ends. Boot needs no fairness: the property starts when
the meter ticks.

**Deadlock** is not checked (`CHECK_DEADLOCK FALSE`): every instance is bounded, so it
stops when its arrivals, its lives or its clock are used up. That no lock is left behind is
stated as an invariant instead (`GateHeldInside`, `OneSettlerPerCharge`), that no
slot is, as `SlotsAccounted`.

## 4. What the code does and a comment denies

The run marked *violation* checks one sentence of the source, and TLC shows a
behaviour of the code that breaks it.

* **WalletDeferred** refutes `QuorumBootEstablishes`. A new agent's first boot establishes at 0 and its flusher, seeded dirty (rail.rs:1874), publishes a token event that holds no proof. If the node then stops before anything is derived, every later boot reads a quorum of both planes, finds the floor empty and the token plane not empty (raw presence, boot.rs:885) and defers; the retry decides the same way, so the counter is never established and the wallet can neither receive nor mint. boot.rs:1634-1636 says of a boot left unestablished that it "re-establishes on the next boot that reaches ≥k", and nip60_counter.rs:318 defers against "possibly-unread proofs", of which there are none.

Seventeen more claims are refuted in configurations to be run by hand, one each, but for
`GenomeClaims`, which holds four: TLC stops at the first, take it out to see the next.

| Configuration | Module | Property refuted | Where the code does it | What the comment says |
|---|---|---|---|---|
| `FetchUnpaid` | `MCGateway` | `PerformedIsPaid` | `gateway.rs:1083` | the refusal of a debit after its act is unreachable (753-757, 916-918, 1080-1082) |
| `FencedDebit` | `MCGateway` | `FencedNeverDebits` | `gateway.rs:719` | at most the lease holder ever debits (526-527) |
| `MemoryReused` | `MCGateway` | `StoreMatchesLedger` | `gateway.rs:858` | a key reused for other content is refused (563-566) |
| `ChargeTerms` | `MCGateway` | `DivergentChargeRefused` | `gateway.rs:610` | a charge key with other terms is refused (572-573, 1174-1175, 1875-1876) |
| `SettleLockLeak` | `MCSettlement` | `NoLockLeaks` | `gateway.rs:1300` | the entry is removed on every exit, a cancellation included (158-159, 1304-1305) |
| `SnapshotTorn` | `MCTreasuryBooks` | `SnapshotNeverInflated` | `treasury.rs:551` | the identity recovers the income exactly (158-159) |
| `HostDoubled` | `MCFleetHost` | `NeverDoubleHosted` | `fleet_supervisor.rs:515` | a lost record is never a double host (342-344, 507-508) |
| `HostBounce` | `MCFleetHost` | `BounceInvisible` | `fleet_supervisor.rs:312` | a bounce is invisible; a static tenant is re-adopted (688-689, 748-749) |
| `CosignStep` | `MCCosign` | `SelfHeals` | `relay_transport.rs:620` | the wire heals for the next ceremony (1642-1645; `quorum_signer.rs:315-318`); the sibling of this `recv` drains first (934-956) |
| `GenomeClaims` | `MCGenomeLoop` | `InvoiceIsBacked` | `capable.rs:2392` | the customer is invoiced and his job armed as one (3566-3569) |
| `GenomeClaims` | `MCGenomeLoop` | `ReplyFromItsThink` | `capable.rs:2149` | after a resume the next THINK takes a new seq (2142-2143, 2152) |
| `GenomeClaims` | `MCGenomeLoop` | `AnswersOnce` | `capable.rs:3114`: a failed poll is an idle tick and commits the seq | the retry of a lost answer reuses the seq, a settlement is answered exactly once (3321-3324) |
| `GenomeClaims` | `MCGenomeLoop` | `NoEventSkipped` | `nerve.rs:781`: the number is taken before the lock | exactly-once at the genome via the monotonic cursor (837-844) |
| `HibernateRace` | `MCHibernate` | `StaysAwakeAlone` | `hibernate/seal.rs:349` | an abort leaves nothing that can be resurrected (35-39) |
| `FleetSplitBrain` | `MCFleetLease` | `NoSplitBrain` | `relay_lease.rs:908` | the single winner comes from the monotonic term (`spawn.rs:798-799`); a race of one term is resolved by "the term tiebreak" (905-906), of which there is none |
| `NodeOrphan` | `MCNodeRun` | `HaltedOnReturn` | `boot.rs:2112`, `2125`; a launch that fails late | the VM is always halted before the run returns, also on an error (`metered_run.rs:238-239`) |
| `HibernateAbort` | `MCHibernate` | `CleanAborts` | `hibernate/seal.rs:310-333` | no abort leaves a live request and releasing holders (38-39) |

Others are not kept as configurations. `main.rs:1389` says of the launch that
"SINGLE-WINNER ON THE LAUNCH PATH is enforced" by the re-read; on a free network two
nodes whose claims of one term lie further apart than the pause both launch, because
the relay keeps the later claim after the earlier one was confirmed (the test's relay,
`fleet_supervisor.rs:1579-1606`, keeps the first). Two requests with the same key in flight
together both reach the rail and, on a metered rail, are both paid for, though
debited once (`gateway.rs:747-749` calls it "the same idempotent act"). On a
resume the income a snapshot would derive is short by the prior rent, where
`treasury.rs:221-222` says "over-derived" (`gateway.rs:1483` says "understated", and
omits it). The refused debit after a performed act, which `FetchUnpaid` shows for a
fetch, holds for a completion and for a memory write without any lock at all.

In `FleetHost`: a spawn cut between reservation and launch leaves its ledger entry
`PENDING` and its slot taken, and the request sent again is answered `AlreadyAllocated`;
a request sent again after a cut launch starts an agent that has died since, where
`spawn.rs:407` promises that a killed agent is not resurrected; after a
reboot of the host every record is judged not alive, and the keystores of the host's
agents are deleted. In `WalletBackup`: a
third life in which relays return (`Returns = TRUE`, `MaxLives = 3`) regresses the head
(`nip60.rs:778-781`); token events that were acknowledged and are not served are deleted by a
rollover that never read them (`rail.rs:1853-1855`); and the retry of a deferred boot never
publishes the wallet's head, though `nip60.rs:794` and `boot.rs:1561`, `1577` leave it to it. In
`GenomeLoop`: when the full queue drops the event of a transient tick, the next event
is served under the same `seq`, and is answered from the journal's row of the first.

**Properties that hold and are in no run.** The modules also define `SingleHost`, `FetchNeverUnpaid`,
`AnsweredChargeIsPolled`, `OneKeyPerCharge`, `QuietSnapshotExact`, `NoticeIsCredit`, `ResolvedForGood`,
`ReceiptsKept` and the type invariants of all modules. TLC finds them to hold in an
instance of their module; the runs leave them to the theorems, or to a
stronger property that they follow from. `OneKeyPerCharge` needs two keys and three charges
to be put to the test, which the run's workloads do not have.

## 5. What is proved

The theorems hold for any clients, keys, requests, charges, amounts and bounds. They
rest on the named assumptions of the modules (`TreasuryAssumption`,
`GatewayAssumption`, `SettlementAssumption`, `FleetLeaseAssumption`, `FleetHostAssumption`, `CosignAssumption`,
`HibernateAssumption`, `NodeRunAssumption`, `LoopAssumption` and `WalAssumption`, which is the two
assumptions of `WalletBackup`). Most only say that the constants are of the kinds used and
that the `No...` values are not members of what they are absent from. Two say more:
`SettlementAssumption` asks for finitely many callers and charges and for enough locks to give each
call a fresh one, and `HibernateAssumption` for quorums that meet, which the thresholds of
`shamir.rs` guarantee.

* `TreasuryTypesSafe` (`GatewayProofs`): Every interleaving of the treasury's clients keeps every store well-typed, so the balance never leaves 0..MaxSats and no row holds a cost or balance outside it.
* `ReceiptsAreKept` (`GatewayProofs`): No step of any client rewrites or drops a ledger row.
* `ChargesResolvedForGood` (`GatewayProofs`): A resolved charge's row never changes and nothing is credited for it again.
* `IndexIsExact` (`GatewayProofs`, the property `IndexedIffRecorded`): The poll index holds exactly the charges that a ledger row carries.
* `BooksAlwaysBalance` (`GatewayProofs`, the property `BooksBalance`): No sat is lost or made: what is left, plus every recorded cost, plus all rent, is the genesis budget plus every credit plus what the reconcile added, for finitely many keys and charges and any amounts.
* `BooksKeepTheAccount` (`GatewayProofs`, the property `KeepsTheAccount`): The stores implement the agent's account (AgentAccount): under any clients in any order each step pays an act that was not paid, receives a payment that was not received, charges rent, reconciles, or moves nothing.
* `SnapshotExactAtRest` (`GatewayProofs`): A snapshot that no client interleaved with, in the run that opened the store, reports exactly the income that was credited.
* `GatewayTypesSafe` (`GatewayProofs`): The gateway's state is well-typed in every reachable state, for any clients, requests and bounds.
* `PublishAtMostOnce` (`GatewayProofs`, the property `PublishedAtMostOnce`): Nothing is published twice under one key, whatever is raced, retried, cancelled, failed or replayed.
* `PublishIsPaidFirst` (`GatewayProofs`, the property `PublishPaidFirst`): Whatever was published has its ledger row already.
* `AnswersAgreeWithLedger` (`GatewayProofs`, the property `AnswersAgree`): Every receipt of a done act gives the numbers of the one row of its key.
* `DebitsWithinAuthority` (`GatewayProofs`, the property `WithinAuthority`): A row is added only by a request that allows its cost and destination.
* `GateIsHeldInside` (`GatewayProofs`, the property `GateHeldInside`): egress_debit_gate is held only by a fetch between its balance read and its debit, however fetches end.
* `OneFetchInside` (`GatewayProofs`): Two fetches are never between the balance read and the debit at once.
* `ReplayIsInert` (`GatewayProofs`): Once a key has its row no step performs its act again, if a client does not ask for a key while another handler has it.
* `RecordedWritesStay` (`GatewayProofs`, the property `RecordedWriteServed`): A recorded memory write is never rolled back: the store serves it or a later one, if keys name writes and the genome has one write in flight.
* `GatewayKeepsTheAccount` (`GatewayProofs`, the property `KeepsTheAccount`): The gateway implements the agent's account too: retries, races, cancellations, crashes, rent and charges of any handlers are acts paid once and rent, and nothing else.
* `GatewayBooksBalance` (`GatewayProofs`, the property `BooksBalance`): No handler loses or makes a sat: the books balance after every step of the gateway, for finitely many keys and charges.
* `GatewayIndexIsExact` (`GatewayProofs`, the property `IndexedIffRecorded`): Whatever handlers race, are dropped or die, the poll index holds exactly the charges that a ledger row carries.
* `ToldChargeIsPolled` (`GatewayProofs`): Every charge id that a receipt tells the genome is in the poll index.
* `ChargeIsForOneKey` (`GatewayProofs`): No charge id is on two rows of the ledger, although handlers hold their ids while they wait for the transaction.
* `SettlementTypesSafe` (`SettlementProofs`): The settlement's state is well-typed in every reachable state.
* `OneSettlerInside` (`SettlementProofs`, the property `OneSettlerPerCharge`): At most one call is inside settle_charge for a charge, for any charges, callers and locks.
* `CreditIsBacked` (`SettlementProofs`, the property `CreditedWasMinted`): A charge is never credited more than was minted for it, through crashes and lost mint answers.
* `RedemptionsBounded` (`SettlementProofs`, the property `RedeemedOnce`): A charge is redeemed once more at most than calls were cut off or the daemon crashed.
* `ResolvedIsDeadToWallet` (`SettlementProofs`, the property `ResolvedWalletUntouched`): No step touches the wallet for a charge that is already resolved.
* `NoticesAreCredits` (`SettlementProofs`): A charge is announced to the genome once at most, and only with the amount that is on its books.
* `SettlementKeepsTheAccount` (`SettlementProofs`, the property `KeepsTheAccount`): Settling implements the agent's account: through crashes, lost mint answers, races and retries a payment is received once.
* `LeaseTypesSafe` (`FleetLeaseProofs`): The lease lifecycle keeps to its types, for every fleet and every delay.
* `RacesAreSettled` (`FleetLeaseProofs`, the property `RaceSettled`): The read-after-write fence: two nodes launched at one term claimed it at least the settling pause apart, for any number of survivors, agents and delays.
* `ObservedGoesForward` (`FleetLeaseProofs`, the property `ObservedForward`): What a node has observed of an agent never goes back to an older term or, within a term, to another holder or an earlier second, whatever order the relay delivers in.
* `TakeoversWait` (`FleetLeaseProofs`, the property `TakeoverWaits`): On a timely network a node claims an uncontested lease of another only when it has been stale for the whole grace window, for every fleet and every delay, as long as no launch keeps a node from reading an event until that event is stale itself (FreshNews).
* `OneHostPerAgent` (`FleetLeaseProofs`): On a timely network an agent none of whose terms was contested runs on one node, for any fleet and delays with a pause that is no longer than the TTL, as long as whoever takes over has read what is a settling pause old (NewsBeforeTakeover) and hosts are heard of steadily (SteadyBeats).
* `NoTakeoverWhileItRuns` (`FleetLeaseProofs`, the property `NoFalseTakeover`): Under the same conditions no node claims the lease of an agent that runs.
* `FailsOverInTime` (`FleetLeaseProofs`, the property `FailoverInTime`): On a timely network an agent that runs nowhere, but whose keystore some node has, is taken over within a stale lease and a grace window, contested terms or not, for any fleet and delays of which each fits the next (FailoverFits), as long as the nodes that could take it over have room, sight of something fresh, no other launch under way, and among them one whose view of the agent is within the age bound (FreeToTakeOver).
* `HostTypesSafe` (`FleetHostProofs`): The host's ledger, slots, keystores and steps keep to their types over every life.
* `OneProcessEach` (`FleetHostProofs`, the property `OneProcess`): Apart from agents with a launch cut short, no two processes are of one agent or use one CID, for any agents, slots and lives.
* `IdentityIsKept` (`FleetHostProofs`, the property `IdentityKept`): A process that runs finds the keyset it was born with in its keystore, across reaps, rollbacks and restarts.
* `SlotsAreAccounted` (`FleetHostProofs`, the property `SlotsAccounted`): In the loop with a complete view a slot is held only for a tenant that is tracked or being launched, those of cut launches apart.
* `FalseReapFenced` (`FleetHostProofs`, the property `FalseReapFence`): A supervisor with an incomplete view of the leases ends no tenant that an earlier one left running.
* `NonceSafety` (`CosignProofs`, the property `NonceSignsOnce`): No nonce of any holder makes two shares, for every set of holders, callers and messages, and whatever the relay delivers.
* `CosignTypes` (`CosignProofs`): Every variable of the coordinator, the holders and the relay keeps its type.
* `CosignImplementsOracle` (`CosignProofs`, the property `KeepsThePromise`): The signing round refines the signing oracle: what is emitted was asked for by a caller still waiting and endorsed for that message by a threshold of holders.
* `LoneRequestFallsBack` (`CosignProofs`, the property `FailureExplained`): In the coordinator's first life the request of a lone caller fails only when every subset of a threshold of the holders has one that timed out or restarted, for every set of holders and every threshold.
* `AnswersArePaidOnce` (`AgentProofs`, the property `AnswersPaidOnce`): An answer goes only to the customer who asked and for a settlement that covers his charge, for any customers, prices, faults and reboots; and once, when producers do not race and no second call is lost.
* `NoEventIsSkipped` (`AgentProofs`, the property `NoEventSkipped`): The cursor passes no queued event that the genome has not served, as long as two producers do not hold numbers at a time.
* `BackupMirrorsWallet` (`WalletBackupProofs`, the property `QuietMirror`): Whenever nothing is dirty and no flush is under way, every spendable proof is in a live backup event, but for those the retry brought in; for any hosts, relays, quorums and lives.
* `DurableProofsSurvive` (`WalletBackupProofs`, the property `BackupNeverLost`): A proof of a durable live event leaves the backup only when it is spent or the running wallet knows it, for any relays and quorums that meet.
* `DerivationIsAboveFloor` (`WalletBackupProofs`, the property `DerivesAboveFloor`): A wallet that may derive is above every head no read quorum misses, if a host that lost the agent is not given it again.
* `HeadOnlyAdvances` (`WalletBackupProofs`, the property `HeadNeverRegresses`): The counter head that read quorums yield never goes back, under the same hypothesis.
* `HibernateTypes` (`HibernateProofs`): Every variable of the seal, the holders, the relay and the wakers keeps its type.
* `SleepRecovers` (`HibernateProofs`, the property `SleepIsRecoverable`): Whatever failed, was revoked or was dropped before it, a seal that wiped its seed left its request on the relay, its bundle on disk and its shares with every holder that opens.
* `OneRuntimePerSeal` (`HibernateProofs`, the property `OneLiveRuntime`): For any number of holders whose quorums meet, and any wakers and lease lifetimes, one seal never has two live runtimes.
* `AwakeStaysUnresurrected` (`HibernateProofs`, the property `AwakeNotResurrected`): No waker starts a runtime while the agent is awake with no publish unsettled.
* `NodeTypeCorrect` (`AgentProofs`): Every variable of the driver, its tasks and the VMM keeps its type.
* `EstateIsCovered` (`AgentProofs`, the property `EstateCovered`): A run that ended in order and whose last flush went through leaves no spend of its guest out of the backup.
* `DeathsAreResumable` (`AgentProofs`, the property `DeathIsResumable`): A death that was announced has ended its guest, and the newest checkpoint is whole and no older than the halt.

*Treasury.* `TreasuryTypeOK` is inductive by itself: each outcome operator guards the
subtraction or addition it allows. That the balance never leaves `0..MaxSats` is the
part that matters. `IndexIsExact` needs that a row names a charge only together with
its index entry, which is the conjunction in `record_charge_atomic`. `BooksBalance` is about sums
over the two ledgers, which the model takes with `MapThenSumSet`. They are reasoned about as functions
of the subsets of the keys (`Sums`): such a function exists (`SumsExist`), and it moves by what one
of its terms moves by (`SumsMove`), both by looking at a smallest subset that would be an exception
(`SubsetInduction`). The theorem asks for finitely many keys and charges, as any run of the daemon
has; a ledger of infinitely many rows has no sum.

*The account.* `Transacts` says of a step that it is one transaction of the treasury with arguments of
the right kinds, or touches no store. It holds of every step of the books
and of the gateway (`BooksTransact`, `GatewayTransacts`), and what is true of the treasury is proved from it
once for both: the refinement (`TransactsKeepAccount`), the index (`IndexedStep`) and
the balance of the books (`BalanceStep`). So the books balance and the index is exact under the gateway's
handlers as well, although these debit long after they have looked. `SettlementProofs` goes through the
two transactions that its module makes. The refinement needs one
invariant, `RowsOfCredits`: nothing is credited for a charge without a row.
`SnapshotExactAtRest` is the invariant `QuietInv`, which says what a snapshot that nobody
interleaved with has read so far; at its last read the books balance, with nothing burned before this
life, and the subtraction gives the income.

*Gateway.* `TypeOK` is not inductive: the receipt of a published or failed publish is
read from a row, which must exist. `PlacesInv` adds where an act can be (only a
publish is at `reserve`, only a fetch at `lock` or `regate`) and that a publish
past its reservation has its row; rows are never removed (`RowsKeptStep`). At most once
needs to say, for one key, who may still publish: `PublishInv` counts the effect and
the handlers past the reservation together, and only the winner of the debit is past it.
`AnswersAgree` follows because a receipt is taken from the row or from the very debit
that wrote it. `WithinAuthority` needs `GatedAt`: whoever is past a gate still holds a
request that passed it, and what the rail reported is at most the estimate. The
gate of the fetches needs the exact statement `GateExact` (the holder is the handler inside, and
the handler inside is the holder): the weaker `GateHeldInside` alone would let a second
fetch in after the first releases a gate it does not hold.


A charge id is in a handler's hands before it is in a row. `QuotedInv` says that every id in a row or in the
hands of a handler was quoted, that no two handlers hold one and none that is held is in a row; an id is
new when it is quoted (`Issue`), so no later row can repeat it (`ChargeIsForOneKey`).
`ToldChargeIsPolled` follows from the receipt being its row (`AnswersAgree`) and the index being exact.

Two more results need to know the genome, and state as hypotheses what it does. `ReplayIsInert`: if
nobody asks for a key while a handler has it (`NoKeyTwice`), a handler past step 1 finds no row
of its key (`AheadInv`), so what it performs was not performed before. `RecordedWritesStay`: if a key
names one write (`KeysNameWrites`: `memory.rs` and `capable.rs` form `mem-write-{seq}` from the write's number) and one write is in flight
(`OneWriter`), every recorded sequence is below `wseq_floor` and a write past the floor's check is
above every recorded one; a write that was dropped before its debit and is sent again finds its token in
the store client, or writes the same sequence again.

*FleetLease.* `RaceSettled` needs to follow a claim from the relay to the launch. `Won`
says that a claim has won: its node hosts the agent by it, or has re-read its own name.
`Leads` says that a claim waits for its re-read and is the one the relay keeps. The
invariant `RaceInv` says that two wins of a term lie a settling pause apart, that a claim
that leads landed a pause after every win of its term, and that a win is at least a pause
old. A win is only ever made by a re-read of the claim that leads (`WonStep`), and
a lead only by a claim that lands now (`LeadsStep`), because nobody publishes in another
node's name. Term 1 is never raced for (`HomeFirst`). The proof uses nothing of the scan,
of the observers or of the network: the fence alone gives this much, and no more. Two
claims further apart than the pause are both launched, if the second node has not
been sent the first's claim when it scans.

`ObservedGoesForward` needs no clock: the fold of `observe_occupancy` takes a later event of the
holder it knows without comparing terms. What saves it is `TermsInv`: nobody publishes in another
node's name, every claim of a node is of term 1 or at most one above what the node has seen
(`ClaimsKnown`), and a tenant's term and the term of a launch are no lower than any the node has claimed
before (`TenantTops`, `LaunchTops`); so the claims of a node never go back (`ClaimsForward`), in
whatever order they arrive.

`TakeoversWait` follows the dwell (`grace_state`) from the scan that begins it to the claim that
ends it. `DwellInv` says that a dwell began after the lease the node has observed went stale, or
that this lease is fresh and the idle node's next scan ends the dwell (`Tick` lets no second
pass a scan that is due); and that a launch under way was preceded by a dwell of the grace window. The
proof has one hypothesis about the behaviour, `FreshNews`: an event that an idle node has still to
read is not stale yet. The code promises no such thing, since a loop that makes several launches
in a row, each a settling pause long, reads nothing meanwhile; a lease that is stale when it is read
then inherits the dwell of the one before it. The delays of the run `FleetLease` keep to
the hypothesis: TLC finds `FreshNews` and `DwellInv` invariant on its instance.

`OneHostPerAgent` and `NoTakeoverWhileItRuns` say what the lease as a whole is for, and under which
conditions it gives it. The fence of a launch only looks at rivals of its own term, so that an older
host is gone rests on what the claimant knew. Two hypotheses about the behaviour state what that takes:
`NewsBeforeTakeover` (a node that admits a takeover has read of that agent what is a settling pause old)
and `SteadyBeats` (a host is heard of at intervals that leave a pause before its lease goes stale); and
`PauseFits` is about the delays (the defaults are a pause of 2 s and a TTL of 30 s). The code promises neither: a
launch awaits its pause in the same task that reads and heartbeats, and nothing makes the loop read
before it scans again. TLC finds both hypotheses, and `HouseInv`, invariant on the instance of the run
`FleetLease`, where no node has two agents to take over. `HouseInv` says: whoever runs an agent, or has claimed it and waits, is
at the highest term there is (`ContenderIsTop`); a node's events of a term began with a claim that has seen its
pause (`OwnsAged`); a term is claimed only of a stale lease of the term before (`Succeeds`), and by a node that had
read all that is a pause old (`LaunchKnew`). The step that matters is `ClaimIsTop`: a claim that lands is of the
highest term, since an event above it would have a stale predecessor that the node had
read; and no other node contends below it, since that node's later beats would have been read, or its own claim
would still be fresh. Two hosts would then both have the highest term, and it is uncontested.

`FailsOverInTime` turns the deadline into an induction over the seconds. `Tick` lets a second pass on a timely
network only when no node is `Overdue`, so what a second ends with is known: a host has beaten within
`Every`, a launch is within its pause, an idle node has read all there is and has scanned. `TimeInv` says
what follows: whoever hosts an agent, or has claimed it, was heard of within a second more
than a TTL (`HostsHeard`); a backoff counts from a claim that is on the relay or was replaced there by one as late
(`LaunchesHeard`); a node that could take over an agent which is not heard of has read all there is of it and
counts its dwell from when the lease went stale (`DwellsInTime`). At the deadline that dwell is the grace
window, the backoff is over, and the scan admits the agent: the node is overdue, and the second cannot end
(`TakenInTime`). No term need be uncontested. The hypothesis `FreeToTakeOver` names what else could stand in the
way, none of which the code excludes: a launch of another agent, the tenants' bound, a view in which nothing is
fresh, and an age bound that is exceeded on all nodes with the keystore. `FailoverFits` holds of the defaults
(heartbeats of 10 s, a TTL and a grace window of 30 s, a pause of 2 s, a backoff of 60 s). TLC finds the hypothesis
and `TimeInv` invariant on the whole instance of the run `FleetLease`.

*Settlement.* Four invariants. `LockInv`: whoever holds or waits for a lock holds the
reference the map counts, a caller that holds owns the mutex, and while it relies on the
lock the map's entry of its charge is that mutex, so a newcomer finds it; hence one caller is
inside. `Backing`: what is held for a charge, or credited to it, is at most what the mint
signed for it, and a caller that is about to credit brings a verified amount that is at
most that, also the one that resumes after a cut. `Redemptions`: a charge is redeemed as often
as it is on the books or about to be, and otherwise once for each crash or dropped call,
which are counted. Locks come from a finite set, and the assumption that it suffices for every call
in flight is where `Cardinality` enters. `NoticesAreCredits` needs `NoticeInv`: who is about to
notify brings what is on the books of its charge, which nobody has been told of, and is alone with it,
since the notice follows the credit inside the charge's lock.

*FleetHost.* `HostInv` adds to the types what each phase and each stage of a launch
presupposes. `FenceInv`: what a supervisor tracks before it has seen all the leases it has started
itself. `HouseInv` relates disk, memory and processes: process ids are not shared,
two processes outside `cut` are of two agents with two slots, each has its slot, its keyset
and its record or the launch or reap that is about to change them, and a tracked tenant is recorded.
`SlotInv` says who owes each slot that is taken, in every stage of a launch and of a reap.

*Cosign.* A nonce leaves the holder's store in the very step that makes its share, and
nonces are drawn by a counter that never goes back; so a nonce is in the store, or has made
one share, or is lost. The refinement needs beside it that whoever aggregates holds, from a
threshold of holders, shares of the package of its own message: what is taken into
`parts` was made (`shares`) for the package of this ceremony.
`FailureExplained` is proved for one caller (`Lone`: callers that share the signer take each
other's replies) by `FallbackInv`, about the coordinator's first life: a holder that was never
late has one frame on its way at most, and none unless the caller waits for it (`Accounted`);
every subset tried before has a holder that was late (`TriedInVain`); and while the present one
has none, each of its holders keeps the nonce it committed to, the frame on the way is the one
that is due, and every share fits (`WillSign`). So such a subset meets no misfit and
aggregates, and only one with a late holder is abandoned.

*Hibernate.* Four invariants. `Course` says where the seal stands: its split is the last one,
its bundle is on disk, no event is newer than the last split. `Handed` says who
guards what while a seal or a revoke goes from holder to holder. `Reached` is about every request
anybody may have, on the relay, on the way or fetched: no holder guards an older split
than it asks for, and once every publish is settled all holders guard a later one. `Fenced`
says that each holder of a live runtime's quorum leases to it, or guards a later split, or
the runtime's lease is over. Two quorums meet (`HibernateAssumption`), and at the holder they
share a second runtime of the split would need a lease that is another's: `OneLiveStep`.

*NodeRun.* The driver's place decides most of it, so the invariants are tables: which runs have a
VMM, who still holds the treasury, and what `atHalt`, `flushed` and `died` may be at each place.
`EstateIsCovered` needs that nothing lands in the wallet for the guest after the halt but what
`atHalt` does not count; `DeathsAreResumable` that a checkpoint is put whole before the
death is announced, and that the next one submitted is the newest.

*GenomeLoop.* `QueueInv`: known events have different numbers below the counter, and the event in work is
beyond the cursor. `PlanInv`: what is to be charged is a positive amount. `PaidInv`: what is quoted, charged,
awaited, settled and answered is one amount. `OnceInv` is about the one
settlement a customer can have (`OneSettlement`), the one message that answers it
(`OneAnswer`) and the seq that a lost answer will be sent again under (`Retried`). The
sentence "and once" holds with one lost call at most: with two, the poll may be what fails, see
`GenomeClaims`. `NoEventIsSkipped` needs `OrderInv`: the event in work is the oldest that
waits, and a number held outside the lock is the largest, which `~Racing` gives.

*WalletBackup.* Lemmas state for each action what it does to each field, the steps are
proved from those. `LifeInv` says what a life presupposes: the retry runs only until the recovery,
the flusher is past its gate only after it, the mirror of a wallet that may derive is its
counter. `ChainInv`: every event supersedes earlier ones only, and the one that awaits its
read-after-write is the last. From it, `QuietInv`: a spendable proof is in the live backup, in the flush
under way, or the dirty flag is up. `BackupInv`: an authoritative read meets every durable
event in a relay (`QuorumsMeet`), so a recovery knows or finds spent each durable proof, and
what a rollover supersedes holds none that the wallet lacks. `FloorInv`: heads of one age are
equal (`Ties`), and a wallet that may derive is above the floor; a publication at that counter
lowers the floor of no quorum, whether the quorum meets the acknowledgements or misses them
(`HeadRaised`). `EmptyInv` is the other half of `DerivesAboveFloor`: a counter of zero was
established by a quorum that served nothing, and a wallet at zero has nothing to publish.

Only model-checked is all liveness (`InboxDrains`, `PaidIsSettled`, `DeadGuestEndsRun`), which is out of the
prover's reach. Every invariant that a passing run checks is stated by a theorem; where the code alone does
not give it, the theorem names the hypotheses. `ReplayPerformsNothing` speaks of the workloads of its run:
`ReplayIsInert` is its general form.

## 6. What is not modelled

Cryptography is abstract everywhere; parsing, wire formats, process and network set-up
are left out (`not_modelled` in `PROJECT.json` gives the reason for each component).

What is left out, and why it stays out:

* **Machines and host, configuration, wire types**: I/O and parsing; what the driver relies on, launch,
  liveness probe and halt of the VMM, is in `NodeRun`.
* **The ECDH round and the provisioning ceremony** (`quorum_ecdh.rs`, `keyset_provisioning.rs`):
  the first is the signing round without nonces, so that what is hard about `Cosign` does not
  arise; the second runs in one process, and what a crash leaves of it is the
  keystore of `FleetHost`.
* **Resharing** (`kirby-custody/src/reshare.rs`): cryptography that no production code calls.
* **Snapshots of a machine** (`snapshot_run.rs`, `full_loop_run.rs`, `app_checkpoint_run.rs`): drivers that
  snapshot, transfer and restore in one process, step after step; the app checkpoint and its store are
  in `NodeRun`, its place among the genome's acts is in `GenomeLoop`.
* **Burn rates and the egress counter**: arithmetic on samples of the host, with the debit
  that they cause in `TreasuryBooks`.
* **The verified lease view behind the gateway** (`RelayLeaseAuthority`): an arbitrary verdict in
  `Gateway`, which allows more than any view of `FleetLease` would give.
* **Same-second ties, key derivation, encodings**: abstracted in each module as stated above.
* **A partition that heals**: the dwell of `failover_detect.rs` is a difference of clock
  readings, so a long blindness counts as patience; `FleetLease` has no clock reading
  taken before and used after such a gap.

The modules are composed where the code shares state: `TreasuryBooks`, `Gateway` and
`Settlement` over `Treasury`, `GenomeLoop` over `Inbox`, `Cosign` over its oracle. They are kept
apart where one sees of the other only an answer that may be anything: the lease in
`Gateway` and `FleetHost`, the treasury in `GenomeLoop`, the host in `WalletBackup`.
