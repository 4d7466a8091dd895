---------------------------- MODULE TreasuryBooks ----------------------------
(* The treasury under all its clients at once: the gateway's debits, charges   *)
(* and credits in any order, the meter's tick, the boot reconcile, a restart   *)
(* of the daemon, and the economics snapshot, which is not one transaction but *)
(* a series of reads that the other clients run between                        *)
(* (crates/kirby-node/src/treasury.rs, meter.rs).                              *)
EXTENDS Treasury

CONSTANTS
  Amounts,        \* the sats an act, a tick or a settlement moves
  Observations,   \* the balances a boot probe may report
  MaxOpens,       \* bound: restarts
  MaxReconciles,  \* bound: reconciles
  MaxBurned       \* bound: rent burned over all runs

ASSUME BooksAssumption ==
  /\ Amounts \subseteq Nat
  /\ Observations \subseteq Sats
  /\ {MaxOpens, MaxReconciles, MaxBurned} \subseteq Nat

VARIABLES
  meter,       \* the rent of a committed tick still to be added in memory
  snap,        \* the economics snapshot being taken
  opens,       \* restarts so far
  reconciles,  \* reconciles so far
  quiet        \* history: no treasury step since the snapshot's first read

booksVars == <<treasuryVars, meter, snap, opens, reconciles, quiet>>

Idle == [at |-> "idle", rent |-> 0, remaining |-> 0, spent |-> 0, income |-> 0]

BooksTypeOK ==
  /\ TreasuryTypeOK
  /\ meter \in Nat
  /\ snap.at \in {"idle", "rent", "remaining", "done"}
  /\ {snap.rent, snap.remaining, snap.spent, snap.income} \subseteq Nat
  /\ opens \in 0..MaxOpens
  /\ reconciles \in 0..MaxReconciles
  /\ quiet \in BOOLEAN

BooksInit ==
  /\ TreasuryInit
  /\ meter = 0
  /\ snap = Idle
  /\ opens = 0
  /\ reconciles = 0
  /\ quiet = TRUE

(* A client's step: the treasury moves, an open snapshot is no longer quiet.   *)
Client(step) ==
  /\ step
  /\ quiet' = FALSE
  /\ UNCHANGED <<snap, opens>>

Debit == \E k \in Keys, cost \in Amounts :
  Client(debit_and_record(k, cost, NoHash)) /\ UNCHANGED <<meter, reconciles>>

IssueCharge == \E k \in Keys, c \in Charges, rail \in Rails, h \in Hashes :
  \* settlement.issue hands out a fresh charge id each time
  /\ \A j \in Keys : Performed(j) => ledger[j].proof # c
  /\ Client(record_charge_atomic(k, c, rail, h)) /\ UNCHANGED <<meter, reconciles>>

Credit == \E c \in Charges, amount \in Amounts :
  Client(credit_verified(c, amount)) /\ UNCHANGED <<meter, reconciles>>

Reconcile == \E observed \in Observations :
  /\ reconciles < MaxReconciles
  /\ reconciles' = reconciles + 1
  /\ Client(reconcile_to_observed(observed)) /\ UNCHANGED meter

(* The meter's tick: the debit, then the rent accumulator.  A refused tick     *)
(* adds nothing.                                                               *)
MeterTick == \E burn \in Amounts :
  /\ meter = 0
  /\ burned + burn <= MaxBurned
  /\ Client(metered_transaction(burn) /\ UNCHANGED rent_sats)
  /\ meter' = IF MeteredOutcome(burn) = "Debited" THEN burn ELSE 0
  /\ UNCHANGED reconciles

TickAccounted ==
  /\ meter # 0
  /\ Client(account_rent(meter))
  /\ meter' = 0
  /\ UNCHANGED reconciles

(* The daemon dies and the store is opened again.                              *)
Restart ==
  /\ opens < MaxOpens
  /\ opens' = opens + 1
  /\ Open
  /\ meter' = 0
  /\ snap' = Idle
  /\ quiet' = FALSE
  /\ UNCHANGED reconciles

(* The snapshot, one read per step: rent_sats by the caller, then remaining,   *)
(* then the fold of the ledger, from which income is derived.                  *)
Reader(step) ==
  /\ step
  /\ UNCHANGED <<treasuryVars, meter, opens, reconciles>>

ReadRent ==
  /\ snap.at \in {"idle", "done"}
  /\ Reader(/\ snap' = [Idle EXCEPT !.at = "rent", !.rent = rent_sats]
            /\ quiet' = (meter = 0))

ReadRemaining ==
  /\ snap.at = "rent"
  /\ Reader(/\ snap' = [snap EXCEPT !.at = "remaining", !.remaining = balance]
            /\ UNCHANGED quiet)

ReadSpent ==
  /\ snap.at = "remaining"
  /\ Reader(/\ snap' = [snap EXCEPT !.at = "done", !.spent = spent_sats,
                 !.income = derived_income(snap.remaining, spent_sats, snap.rent)]
            /\ UNCHANGED quiet)

economics_snapshot == ReadRent \/ ReadRemaining \/ ReadSpent

BooksNext ==
  \/ Debit \/ IssueCharge \/ Credit \/ Reconcile
  \/ MeterTick \/ TickAccounted \/ Restart
  \/ economics_snapshot

BooksSpec == BooksInit /\ [][BooksNext]_booksVars
-----------------------------------------------------------------------------
(* The books balance over the life of the agent, across restarts: what is left *)
(* plus every recorded cost plus all rent is the genesis budget plus every     *)
(* credit plus what the reconcile added.  A debit that loses its row, a row    *)
(* that is written twice, or a credit beside its row breaks it.                *)
BooksBalance ==
  balance + spent_sats + burned = InitialSats + CreditedSats + adjusted

(* The poll index names a charge exactly when a ledger row carries it: no      *)
(* payable charge is invisible to the settlement poller, and no id that lost a *)
(* same-key race is polled (record_charge_atomic).                             *)
IndexedIffRecorded ==
  \A c \in Charges :
    issued_charges[c] # NoRow <=> \E k \in Keys : Performed(k) /\ ledger[k].proof = c

(* A settled charge is settled for good: the row of a charge never changes, a  *)
(* resolved charge is never credited again, and a charge that overflowed has   *)
(* credited nothing and never will (credit_verified's in-transaction dedupe).  *)
ResolvedForGood ==
  [][\A c \in Charges : Resolved(c) =>
       credit_ledger'[c] = credit_ledger[c] /\ credited'[c] = credited[c]]_booksVars

(* A receipt, once given, is what every replay of its key returns: no step     *)
(* rewrites or drops a ledger row (debit_and_record, record_charge_atomic).    *)
ReceiptsKept ==
  [][\A k \in Keys : Performed(k) => ledger'[k] = ledger[k]]_booksVars

(* In the run that opened the store, a snapshot that no client interleaved     *)
(* with, with the meter idle and no saturation, reports exactly the income     *)
(* that was credited: the derivation of economics_snapshot is sound at rest.   *)
QuietSnapshotExact ==
  snap.at = "done" /\ quiet /\ opens = 0 /\ reconciles = 0
    /\ snap.remaining + snap.spent + snap.rent <= MaxSats
  => snap.income = CreditedSats

(* What the EconomicsSnapshot comment promises: the identity recovers the      *)
(* income exactly, so it never exceeds what was credited.  The reads are not   *)
(* one transaction, and a debit between them is counted in both.               *)
SnapshotNeverInflated ==
  snap.at = "done" /\ reconciles = 0 => snap.income <= CreditedSats
=============================================================================
