------------------------------ MODULE Treasury ------------------------------
(* The daemon-owned treasury (crates/kirby-node/src/treasury.rs): one balance  *)
(* and three sled trees - the debit ledger, the credit ledger and the index of *)
(* issued charges - moved only by transactions.                                *)
(*                                                                             *)
(* Each transaction is given twice: as a state-level operator that says which  *)
(* outcome it returns, and as an action that commits it.  TreasuryBooks lets   *)
(* any client call them in any order; Gateway and Settlement call them from    *)
(* the handlers of the gateway.                                                *)
(*                                                                             *)
(* A transaction and its flush are one step: a crash between them leaves       *)
(* either state, and no caller continues in either case.                       *)
EXTENDS Integers, FiniteSets, FiniteSetsExt

CONSTANTS
  Keys,          \* idempotency keys, chosen by the genome
  Charges,       \* charge ids, assigned by the daemon
  Hashes,        \* effective-request hashes (memory writes and charges)
  NoRow,         \* the absent row
  NoCharge,      \* the proof of an act that is not a charge
  NoHash,        \* the empty request hash
  InitialSats,   \* the genesis budget
  MaxSats        \* u64::MAX: an add beyond it is refused

ASSUME TreasuryAssumption ==
  /\ MaxSats \in Nat
  /\ InitialSats \in 0..MaxSats
  /\ NoCharge \notin Charges
  /\ NoHash \notin Hashes

Sats == 0..MaxSats
Rails == {"Lightning", "Cashu"}

(* One performed capability, keyed by its idempotency key: PerformedRecord.    *)
PerformedRecord ==
  [cost_sats : Sats, after : Sats,
   proof : Charges \cup {NoCharge}, request_hash : Hashes \cup {NoHash}]

CreditRecord == [proof : {"credit-verified", "credit-terminal-overflow"},
                 after : Sats]

ASSUME NoRowAssumption ==
  NoRow \notin PerformedRecord \cup CreditRecord \cup Rails \cup Nat

VARIABLES
  balance,         \* the single-value tree
  ledger,          \* Keys -> PerformedRecord or NoRow
  credit_ledger,   \* Charges -> CreditRecord or NoRow
  issued_charges,  \* Charges -> the rail of an issued charge, or NoRow
  rent_sats,       \* in memory: rent burned this run
  \* History, read by no action.
  credited,        \* Charges -> sats added to the balance under that id
  burned,          \* rent burned over all runs
  adjusted         \* net change made by reconcile_to_observed

stores == <<balance, ledger, credit_ledger, issued_charges>>
treasuryVars == <<stores, rent_sats, credited, burned, adjusted>>

TreasuryTypeOK ==
  /\ balance \in Sats
  /\ ledger \in [Keys -> PerformedRecord \cup {NoRow}]
  /\ credit_ledger \in [Charges -> CreditRecord \cup {NoRow}]
  /\ issued_charges \in [Charges -> Rails \cup {NoRow}]
  /\ rent_sats \in Nat
  /\ credited \in [Charges -> Nat]
  /\ burned \in Nat
  /\ adjusted \in Int

(* Treasury::open on a fresh store.                                            *)
TreasuryInit ==
  /\ balance = InitialSats
  /\ ledger = [k \in Keys |-> NoRow]
  /\ credit_ledger = [c \in Charges |-> NoRow]
  /\ issued_charges = [c \in Charges |-> NoRow]
  /\ rent_sats = 0
  /\ credited = [c \in Charges |-> 0]
  /\ burned = 0
  /\ adjusted = 0

(* Treasury::open on an existing store: the seed is ignored, the trees are     *)
(* authoritative, and the in-memory rent starts again at zero.                 *)
Open ==
  /\ rent_sats' = 0
  /\ UNCHANGED <<stores, credited, burned, adjusted>>

-----------------------------------------------------------------------------
(* Debits.                                                                     *)

Performed(k) == ledger[k] # NoRow

DebitOutcome_NoDedupe(k, cost) ==  \* mutation: the row is not looked up in the transaction
  IF cost > balance THEN "Insufficient" ELSE "Debited"

DebitOutcome(k, cost) ==
  IF Performed(k) THEN "Duplicate"
  ELSE IF cost > balance THEN "Insufficient"
  ELSE "Debited"

debit_and_record(k, cost, hash) ==
  /\ IF DebitOutcome(k, cost) = "Debited"
       THEN /\ balance' = balance - cost
            /\ ledger' = [ledger EXCEPT ![k] =
                 [cost_sats |-> cost, after |-> balance - cost,
                  proof |-> NoCharge, request_hash |-> hash]]
       ELSE UNCHANGED <<balance, ledger>>
  /\ UNCHANGED <<credit_ledger, issued_charges, rent_sats, credited, burned, adjusted>>

(* The zero-cost ledger row of a charge and its entry in the poll index, in    *)
(* one transaction; a duplicate writes neither.                                *)
record_charge_atomic_Eager(k, c, rail, hash) ==  \* mutation: a duplicate is indexed too
  /\ ledger' = IF Performed(k) THEN ledger
               ELSE [ledger EXCEPT ![k] = [cost_sats |-> 0, after |-> balance,
                                           proof |-> c, request_hash |-> hash]]
  /\ issued_charges' = [issued_charges EXCEPT ![c] = rail]
  /\ UNCHANGED <<balance, credit_ledger, rent_sats, credited, burned, adjusted>>

record_charge_atomic(k, c, rail, hash) ==
  /\ IF Performed(k)
       THEN UNCHANGED <<ledger, issued_charges>>
       ELSE /\ ledger' = [ledger EXCEPT ![k] =
                 [cost_sats |-> 0, after |-> balance,
                  proof |-> c, request_hash |-> hash]]
            /\ issued_charges' = [issued_charges EXCEPT ![c] = rail]
  /\ UNCHANGED <<balance, credit_ledger, rent_sats, credited, burned, adjusted>>

(* Rent has no key and no row.  debit_metered is a transaction on the balance, *)
(* then an add to the in-memory rent of what the transaction took.             *)
MeteredOutcome(burn) == IF burn > balance THEN "Insufficient" ELSE "Debited"

metered_transaction(burn) ==
  /\ IF MeteredOutcome(burn) = "Debited"
       THEN balance' = balance - burn /\ burned' = burned + burn
       ELSE UNCHANGED <<balance, burned>>
  /\ UNCHANGED <<ledger, credit_ledger, issued_charges, credited, adjusted>>

account_rent(burn) ==
  /\ rent_sats' = rent_sats + burn
  /\ UNCHANGED <<stores, credited, burned, adjusted>>

debit_metered(burn) ==
  /\ metered_transaction(burn)
  /\ rent_sats' = IF MeteredOutcome(burn) = "Debited" THEN rent_sats + burn ELSE rent_sats

-----------------------------------------------------------------------------
(* Credits.                                                                    *)

(* classify_prior: what a settlement of an already resolved charge returns.    *)
classify_prior(c) ==
  IF credit_ledger[c].proof = "credit-terminal-overflow"
    THEN "Terminal" ELSE "Duplicate"

Resolved(c) == credit_ledger[c] # NoRow

CreditOutcome_NoDedupe(c, amount) ==  \* mutation: the credit row is not looked up
  IF balance + amount > MaxSats THEN "Overflow" ELSE "Credited"

CreditOutcome(c, amount) ==
  IF Resolved(c) THEN classify_prior(c)
  ELSE IF balance + amount > MaxSats THEN "Overflow"
  ELSE "Credited"

(* The only way the balance rises.  An overflow writes the terminal row.       *)
credit_verified(c, amount) ==
  /\ CASE CreditOutcome(c, amount) = "Credited" ->
            /\ balance' = balance + amount
            /\ credit_ledger' = [credit_ledger EXCEPT ![c] =
                 [proof |-> "credit-verified", after |-> balance + amount]]
            /\ credited' = [credited EXCEPT ![c] = @ + amount]
       [] CreditOutcome(c, amount) = "Overflow" ->
            /\ credit_ledger' = [credit_ledger EXCEPT ![c] =
                 [proof |-> "credit-terminal-overflow", after |-> balance]]
            /\ UNCHANGED <<balance, credited>>
       [] OTHER -> UNCHANGED <<balance, credit_ledger, credited>>
  /\ UNCHANGED <<ledger, issued_charges, rent_sats, burned, adjusted>>

(* The prepaid-key brain: the balance is SET to the probed external truth.     *)
reconcile_to_observed(observed) ==
  /\ balance' = observed
  /\ adjusted' = adjusted + (observed - balance)
  /\ UNCHANGED <<ledger, credit_ledger, issued_charges, rent_sats, credited, burned>>

-----------------------------------------------------------------------------
(* Reads.                                                                      *)

issued_uncredited_charge_ids ==
  {c \in Charges : issued_charges[c] = "Lightning" /\ ~Resolved(c)}

CostOf(k) == IF Performed(k) THEN ledger[k].cost_sats ELSE 0
spent_sats == MapThenSumSet(CostOf, Keys)
CreditedSats == MapThenSumSet(LAMBDA c : credited[c], Charges)

SaturatingAdd(a, b) == IF a + b > MaxSats THEN MaxSats ELSE a + b
SaturatingSub(a, b) == IF a >= b THEN a - b ELSE 0

(* income is not stored: it is the balance identity, rearranged.               *)
derived_income(remaining, spent, rent) ==
  SaturatingSub(SaturatingAdd(SaturatingAdd(remaining, spent), rent), InitialSats)
-----------------------------------------------------------------------------
(* The account that the stores stand for: a ledger row is what its act cost,   *)
(* a credit row closes its payment, also with nothing when it overflows.       *)
Account == INSTANCE AgentAccount WITH
  Acts <- Keys, Payments <- Charges, Budget <- InitialSats, None <- NoRow,
  funds <- balance, rent <- burned,
  cost <- [k \in Keys |-> IF Performed(k) THEN ledger[k].cost_sats ELSE NoRow],
  income <- [c \in Charges |-> IF Resolved(c) THEN credited[c] ELSE NoRow]

(* Whatever its clients do and however they interleave, the treasury moves as  *)
(* an account does: every act is paid once, every payment received once, and   *)
(* the balance changes by nothing else but rent and the boot reconcile         *)
(* (the transactions of treasury.rs).                                          *)
KeepsTheAccount == Account!Spec
=============================================================================
