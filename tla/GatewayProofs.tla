---------------------------- MODULE GatewayProofs ----------------------------
(* The treasury's transactions and what the two modules above it promise: the  *)
(* books under all clients of the treasury (TreasuryBooks), and the gateway's  *)
(* money path (Gateway) for any number of clients, keys and requests. Both     *)
(* move the account of AgentAccount, keep the books in balance and the poll    *)
(* index exact. The books give a snapshot that is exact at rest. The gateway   *)
(* has at-most-once and paid-first for a publish, receipts that agree with the *)
(* ledger, debits within their authority, the gate of the fetches, charges     *)
(* that are polled once told and have one key, and, for a genome that orders   *)
(* its requests, replays and writes.                                           *)
EXTENDS Gateway, TreasuryBooks, TLAPS, FiniteSetTheorems

(* A debit (debit_and_record) keeps the types: it never takes the balance      *)
(* below zero, because it is refused when the cost exceeds it.                 *)
LEMMA DebitTypes ==
  ASSUME TreasuryTypeOK, NEW k \in Keys, NEW cost \in Nat,
         NEW hash \in Hashes \cup {NoHash}, debit_and_record(k, cost, hash)
  PROVE  TreasuryTypeOK'
<1>1. CASE DebitOutcome(k, cost) = "Debited"
  <2>1. cost \in Sats /\ balance - cost \in Sats
    BY <1>1, TreasuryAssumption DEF DebitOutcome, TreasuryTypeOK, Sats
  <2>2. [cost_sats |-> cost, after |-> balance - cost, proof |-> NoCharge,
         request_hash |-> hash] \in PerformedRecord
    BY <2>1 DEF PerformedRecord
  <2> QED
    BY <1>1, <2>1, <2>2 DEF debit_and_record, TreasuryTypeOK
<1>2. CASE DebitOutcome(k, cost) # "Debited"
  BY <1>2 DEF debit_and_record, TreasuryTypeOK
<1> QED
  BY <1>1, <1>2

(* Recording a charge (record_charge_atomic) keeps the types.                  *)
LEMMA ChargeTypes ==
  ASSUME TreasuryTypeOK, NEW k \in Keys, NEW c \in Charges \cup {NoCharge},
         NEW rail \in Rails, NEW hash \in Hashes \cup {NoHash},
         record_charge_atomic(k, c, rail, hash)
  PROVE  TreasuryTypeOK'
<1>1. [cost_sats |-> 0, after |-> balance, proof |-> c, request_hash |-> hash]
        \in PerformedRecord
  BY TreasuryAssumption DEF PerformedRecord, TreasuryTypeOK, Sats
<1> QED
  BY <1>1 DEF record_charge_atomic, TreasuryTypeOK

(* A credit (credit_verified) keeps the types: it is refused when the balance  *)
(* would exceed MaxSats.                                                       *)
LEMMA CreditTypes ==
  ASSUME TreasuryTypeOK, NEW c \in Charges, NEW amount \in Nat,
         credit_verified(c, amount)
  PROVE  TreasuryTypeOK'
<1>1. CASE CreditOutcome(c, amount) = "Credited"
  <2>1. balance + amount \in Sats
    BY <1>1, TreasuryAssumption DEF CreditOutcome, classify_prior, TreasuryTypeOK, Sats
  <2> QED
    BY <1>1, <2>1 DEF credit_verified, TreasuryTypeOK, CreditRecord
<1>2. CASE CreditOutcome(c, amount) = "Overflow"
  BY <1>2 DEF credit_verified, TreasuryTypeOK, CreditRecord
<1>3. CASE CreditOutcome(c, amount) \notin {"Credited", "Overflow"}
  BY <1>3 DEF credit_verified, TreasuryTypeOK
<1> QED
  BY <1>1, <1>2, <1>3

(* The two halves of the meter's debit (debit_metered) keep the types.         *)
LEMMA MeteredTypes ==
  ASSUME TreasuryTypeOK, NEW burn \in Nat, metered_transaction(burn), rent_sats' \in Nat
  PROVE  TreasuryTypeOK'
<1>1. MeteredOutcome(burn) = "Debited" => balance - burn \in Sats
  BY TreasuryAssumption DEF MeteredOutcome, TreasuryTypeOK, Sats
<1> QED
  BY <1>1 DEF metered_transaction, TreasuryTypeOK

LEMMA RentTypes ==
  ASSUME TreasuryTypeOK, NEW burn \in Nat, account_rent(burn)
  PROVE  TreasuryTypeOK'
BY DEF account_rent, stores, TreasuryTypeOK

(* A restart (open) and the boot reconcile (reconcile_to_observed) keep them.  *)
LEMMA OpenTypes ==
  ASSUME TreasuryTypeOK, Open
  PROVE  TreasuryTypeOK'
BY DEF Open, stores, TreasuryTypeOK

LEMMA ReconcileTypes ==
  ASSUME TreasuryTypeOK, NEW observed \in Sats, reconcile_to_observed(observed)
  PROVE  TreasuryTypeOK'
<1>1. observed - balance \in Int
  BY TreasuryAssumption DEF TreasuryTypeOK, Sats
<1> QED
  BY <1>1 DEF reconcile_to_observed, TreasuryTypeOK

(* No row of the debit ledger is rewritten: a debit or a charge finds the row  *)
(* inside its transaction and writes nothing (debit_and_record,                *)
(* record_charge_atomic).                                                      *)
LEMMA DebitKeepsRows ==
  ASSUME TreasuryTypeOK, NEW k \in Keys, NEW cost, NEW hash,
         debit_and_record(k, cost, hash), NEW j \in Keys, Performed(j)
  PROVE  ledger'[j] = ledger[j]
BY DEF debit_and_record, DebitOutcome, Performed, TreasuryTypeOK

LEMMA ChargeKeepsRows ==
  ASSUME TreasuryTypeOK, NEW k \in Keys, NEW c, NEW rail, NEW hash,
         record_charge_atomic(k, c, rail, hash), NEW j \in Keys, Performed(j)
  PROVE  ledger'[j] = ledger[j]
BY DEF record_charge_atomic, Performed, TreasuryTypeOK

(* No resolved charge is credited again (credit_verified).                     *)
LEMMA CreditKeepsResolved ==
  ASSUME TreasuryTypeOK, NEW c \in Charges, NEW amount,
         credit_verified(c, amount), NEW d \in Charges, Resolved(d)
  PROVE  credit_ledger'[d] = credit_ledger[d] /\ credited'[d] = credited[d]
<1>1. CASE d = c
  <2>1. CreditOutcome(c, amount) \notin {"Credited", "Overflow"}
    BY <1>1 DEF CreditOutcome, classify_prior
  <2> QED
    BY <2>1 DEF credit_verified
<1>2. CASE d # c
  BY <1>2 DEF credit_verified, TreasuryTypeOK
<1> QED
  BY <1>1, <1>2

-----------------------------------------------------------------------------
(* The transactions as steps of the account (AgentAccount).  A debit and a     *)
(* charge spend, or find the row and change nothing; a credit receives, and an *)
(* overflow closes its payment with nothing.                                   *)
CostOn == [k \in Keys |-> IF Performed(k) THEN ledger[k].cost_sats ELSE NoRow]
IncomeOn == [c \in Charges |-> IF Resolved(c) THEN credited[c] ELSE NoRow]

(* Nothing is credited without the row of the charge.                          *)
RowsOfCredits == \A c \in Charges : ~Resolved(c) => credited[c] = 0

LEMMA AccountStays ==
  ASSUME UNCHANGED <<balance, ledger, credit_ledger, credited, burned, adjusted>>
  PROVE  UNCHANGED Account!vars
BY DEF Account!vars, Performed, Resolved

LEMMA DebitIsSpend ==
  ASSUME TreasuryTypeOK, NEW k \in Keys, NEW spend \in Nat, NEW hash \in Hashes \cup {NoHash},
         debit_and_record(k, spend, hash)
  PROVE  [Account!Next]_Account!vars
<1>1. UNCHANGED <<credit_ledger, credited, burned, adjusted>>
  BY DEF debit_and_record
<1>2. CASE DebitOutcome(k, spend) = "Debited"
  <2>1. /\ ~Performed(k) /\ Performed(k)' /\ ledger'[k].cost_sats = spend
        /\ balance' = balance - spend /\ balance \in Nat /\ balance' \in 0..balance
    <3>1. [cost_sats |-> spend, after |-> balance - spend, proof |-> NoCharge,
           request_hash |-> hash] \in PerformedRecord /\ balance - spend \in 0..balance /\ balance \in Nat
      BY <1>2, TreasuryAssumption DEF DebitOutcome, PerformedRecord, TreasuryTypeOK, Sats
    <3> QED
      BY <1>2, <3>1, NoRowAssumption DEF debit_and_record, DebitOutcome, Performed, TreasuryTypeOK
  <2>2. \A j \in Keys \ {k} : ledger'[j] = ledger[j]
    BY <1>2 DEF debit_and_record, TreasuryTypeOK
  <2>3. CostOn[k] = NoRow /\ CostOn' = [CostOn EXCEPT ![k] = balance - balance']
    <3>1. ledger'[k].cost_sats = balance - balance'
      BY <2>1
    <3>2. ASSUME NEW j \in Keys
          PROVE  CostOn'[j] = [CostOn EXCEPT ![k] = balance - balance'][j]
      BY <2>1, <2>2, <3>1 DEF CostOn, Performed
    <3> QED
      BY <2>1, <3>2 DEF CostOn
  <2>4. IncomeOn' = IncomeOn
    BY <1>1 DEF IncomeOn, Resolved
  <2>5. Account!Spend(k)
    BY <1>1, <2>1, <2>3, <2>4 DEF Account!Spend, CostOn, IncomeOn
  <2> QED
    BY <2>5 DEF Account!Next
<1>3. CASE DebitOutcome(k, spend) # "Debited"
  BY <1>1, <1>3, AccountStays DEF debit_and_record
<1> QED
  BY <1>2, <1>3

LEMMA ChargeIsSpend ==
  ASSUME TreasuryTypeOK, NEW k \in Keys, NEW c \in Charges \cup {NoCharge}, NEW r \in Rails,
         NEW hash \in Hashes \cup {NoHash}, record_charge_atomic(k, c, r, hash)
  PROVE  [Account!Next]_Account!vars
<1>1. UNCHANGED <<balance, credit_ledger, credited, burned, adjusted>>
  BY DEF record_charge_atomic
<1>2. CASE ~Performed(k)
  <2>1. Performed(k)' /\ ledger'[k].cost_sats = 0 /\ balance \in Nat
    <3>1. [cost_sats |-> 0, after |-> balance, proof |-> c, request_hash |-> hash]
            \in PerformedRecord /\ balance \in Nat
      BY TreasuryAssumption DEF PerformedRecord, TreasuryTypeOK, Sats
    <3> QED
      BY <1>2, <3>1, NoRowAssumption DEF record_charge_atomic, Performed, TreasuryTypeOK
  <2>2. \A j \in Keys \ {k} : ledger'[j] = ledger[j]
    BY <1>2 DEF record_charge_atomic, TreasuryTypeOK
  <2>3. CostOn[k] = NoRow /\ CostOn' = [CostOn EXCEPT ![k] = balance - balance']
    <3>1. ledger'[k].cost_sats = balance - balance'
      BY <1>1, <2>1
    <3>2. ASSUME NEW j \in Keys
          PROVE  CostOn'[j] = [CostOn EXCEPT ![k] = balance - balance'][j]
      BY <1>2, <2>1, <2>2, <3>1 DEF CostOn, Performed
    <3> QED
      BY <1>2, <3>2 DEF CostOn
  <2>4. IncomeOn' = IncomeOn
    BY <1>1 DEF IncomeOn, Resolved
  <2>5. Account!Spend(k)
    BY <1>1, <2>1, <2>3, <2>4 DEF Account!Spend, CostOn, IncomeOn
  <2> QED
    BY <2>5 DEF Account!Next
<1>3. CASE Performed(k)
  BY <1>1, <1>3, AccountStays DEF record_charge_atomic
<1> QED
  BY <1>2, <1>3

LEMMA CreditIsReceive ==
  ASSUME TreasuryTypeOK, RowsOfCredits, NEW c \in Charges, NEW amount \in Nat,
         credit_verified(c, amount)
  PROVE  [Account!Next]_Account!vars /\ RowsOfCredits'
<1>1. UNCHANGED <<ledger, burned, adjusted>>
  BY DEF credit_verified
<1>2. CASE ~Resolved(c)
  <2>1. PICK gain \in Nat :
          /\ balance' = balance + gain /\ credited' = [credited EXCEPT ![c] = @ + gain]
          /\ Resolved(c)'
    <3>1. CASE CreditOutcome(c, amount) = "Credited"
      <4>1. balance + amount \in Sats
        BY <1>2, <3>1, TreasuryAssumption DEF CreditOutcome, TreasuryTypeOK, Sats
      <4>2. [proof |-> "credit-verified", after |-> balance + amount] \in CreditRecord
        BY <4>1 DEF CreditRecord
      <4> QED
        BY <3>1, <4>2, NoRowAssumption DEF credit_verified, Resolved, TreasuryTypeOK
    <3>2. CASE CreditOutcome(c, amount) = "Overflow"
      <4>1. [proof |-> "credit-terminal-overflow", after |-> balance] \in CreditRecord
        BY DEF CreditRecord, TreasuryTypeOK
      <4>2. Resolved(c)' /\ UNCHANGED <<balance, credited>>
        BY <3>2, <4>1, NoRowAssumption DEF credit_verified, Resolved, TreasuryTypeOK
      <4>3. balance' = balance + 0 /\ credited' = [credited EXCEPT ![c] = @ + 0]
        BY <4>2, TreasuryAssumption DEF TreasuryTypeOK, Sats
      <4> QED
        BY <4>2, <4>3
    <3> QED
      BY <1>2, <3>1, <3>2 DEF CreditOutcome
  <2>2. \A d \in Charges \ {c} : credit_ledger'[d] = credit_ledger[d] /\ credited'[d] = credited[d]
    BY DEF credit_verified, TreasuryTypeOK
  <2>3. balance \in Nat /\ balance' \in Nat /\ balance' >= balance /\ credited'[c] = balance' - balance
    BY <1>2, <2>1, TreasuryAssumption DEF RowsOfCredits, TreasuryTypeOK, Sats
  <2>4. IncomeOn[c] = NoRow /\ IncomeOn' = [IncomeOn EXCEPT ![c] = balance' - balance]
    BY <1>2, <2>1, <2>2, <2>3 DEF IncomeOn, Resolved
  <2>5. CostOn' = CostOn
    BY <1>1 DEF CostOn, Performed
  <2>6. Account!Receive(c)
    BY <1>1, <2>3, <2>4, <2>5 DEF Account!Receive, CostOn, IncomeOn
  <2>7. RowsOfCredits'
    BY <2>1, <2>2 DEF RowsOfCredits, Resolved
  <2> QED
    BY <2>6, <2>7 DEF Account!Next
<1>3. CASE Resolved(c)
  <2>1. UNCHANGED <<balance, credit_ledger, credited>>
    <3>1. CreditOutcome(c, amount) \notin {"Credited", "Overflow"}
      BY <1>3 DEF CreditOutcome, classify_prior
    <3> QED
      BY <3>1 DEF credit_verified
  <2> QED
    BY <1>1, <2>1, AccountStays DEF RowsOfCredits, Resolved
<1> QED
  BY <1>2, <1>3

LEMMA MeteredIsRent ==
  ASSUME TreasuryTypeOK, NEW burn \in Nat, metered_transaction(burn)
  PROVE  [Account!Next]_Account!vars
<1>1. CASE MeteredOutcome(burn) = "Debited"
  <2>1. /\ balance' \in 0..balance /\ burned' = burned + (balance - balance')
        /\ UNCHANGED <<ledger, credit_ledger, credited, adjusted>>
    BY <1>1, TreasuryAssumption DEF metered_transaction, MeteredOutcome, TreasuryTypeOK, Sats
  <2>2. Account!PayRent
    BY <2>1 DEF Account!PayRent, Performed, Resolved
  <2> QED
    BY <2>2 DEF Account!Next
<1>2. CASE MeteredOutcome(burn) # "Debited"
  BY <1>2, AccountStays DEF metered_transaction
<1> QED
  BY <1>1, <1>2

LEMMA ReconcileIsAdjust ==
  ASSUME TreasuryTypeOK, NEW observed \in Sats, reconcile_to_observed(observed)
  PROVE  [Account!Next]_Account!vars
<1>1. /\ balance' \in Nat /\ adjusted' = adjusted + (balance' - balance)
      /\ UNCHANGED <<ledger, credit_ledger, credited, burned>>
  BY TreasuryAssumption DEF reconcile_to_observed, Sats
<1>2. Account!Adjust
  BY <1>1 DEF Account!Adjust, Performed, Resolved
<1> QED
  BY <1>2 DEF Account!Next

LEMMA AccountOpens == ASSUME TreasuryInit PROVE Account!Init /\ RowsOfCredits
BY DEF TreasuryInit, Account!Init, RowsOfCredits, Performed, Resolved

-----------------------------------------------------------------------------
(* Whatever its clients are, the treasury moves by its transactions, each on   *)
(* values of the right kind, or its stores stay.                               *)
Transacts ==
  \/ \E k \in Keys, cost \in Nat, h \in Hashes \cup {NoHash} : debit_and_record(k, cost, h)
  \/ \E k \in Keys, c \in Charges \cup {NoCharge}, rail \in Rails, h \in Hashes \cup {NoHash} :
       record_charge_atomic(k, c, rail, h)
  \/ \E c \in Charges, amount \in Nat : credit_verified(c, amount)
  \/ \E burn \in Nat : metered_transaction(burn)
  \/ \E observed \in Sats : reconcile_to_observed(observed)
  \/ UNCHANGED <<stores, credited, burned, adjusted>>

LEMMA TransactsKeepAccount ==
  ASSUME TreasuryTypeOK, RowsOfCredits, Transacts
  PROVE  [Account!Next]_Account!vars /\ RowsOfCredits'
<1>1. CASE \E k \in Keys, cost \in Nat, h \in Hashes \cup {NoHash} : debit_and_record(k, cost, h)
  <2>1. PICK k \in Keys, cost \in Nat, h \in Hashes \cup {NoHash} : debit_and_record(k, cost, h)
    BY <1>1
  <2>2. RowsOfCredits'
    BY <2>1 DEF debit_and_record, RowsOfCredits, Resolved
  <2> QED
    BY <2>1, <2>2, DebitIsSpend
<1>2. CASE \E k \in Keys, c \in Charges \cup {NoCharge}, rail \in Rails, h \in Hashes \cup {NoHash} :
             record_charge_atomic(k, c, rail, h)
  <2>1. PICK k \in Keys, c \in Charges \cup {NoCharge}, rail \in Rails, h \in Hashes \cup {NoHash} :
          record_charge_atomic(k, c, rail, h)
    BY <1>2
  <2>2. RowsOfCredits'
    BY <2>1 DEF record_charge_atomic, RowsOfCredits, Resolved
  <2> QED
    BY <2>1, <2>2, ChargeIsSpend
<1>3. CASE \E c \in Charges, amount \in Nat : credit_verified(c, amount)
  BY <1>3, CreditIsReceive
<1>4. CASE \E burn \in Nat : metered_transaction(burn)
  <2>1. PICK burn \in Nat : metered_transaction(burn)
    BY <1>4
  <2>2. RowsOfCredits'
    BY <2>1 DEF metered_transaction, RowsOfCredits, Resolved
  <2> QED
    BY <2>1, <2>2, MeteredIsRent
<1>5. CASE \E observed \in Sats : reconcile_to_observed(observed)
  <2>1. PICK observed \in Sats : reconcile_to_observed(observed)
    BY <1>5
  <2>2. RowsOfCredits'
    BY <2>1 DEF reconcile_to_observed, RowsOfCredits, Resolved
  <2> QED
    BY <2>1, <2>2, ReconcileIsAdjust
<1>6. CASE UNCHANGED <<stores, credited, burned, adjusted>>
  BY <1>6, AccountStays DEF stores, RowsOfCredits, Resolved
<1> QED
  BY <1>1, <1>2, <1>3, <1>4, <1>5, <1>6 DEF Transacts

-----------------------------------------------------------------------------
(* The books: every client of the treasury at once (TreasuryBooks).            *)

(* The types of the stores, with the one fact about the meter they rest on:    *)
(* what a tick has still to account is a number of sats.                       *)
BooksTypes == TreasuryTypeOK /\ meter \in Nat

LEMMA BooksTypesStep ==
  ASSUME BooksTypes, [BooksNext]_booksVars
  PROVE  BooksTypes'
<1> USE DEF BooksTypes
<1>1. CASE Debit
  BY <1>1, DebitTypes, BooksAssumption DEF Debit, Client
<1>2. CASE IssueCharge
  BY <1>2, ChargeTypes DEF IssueCharge, Client
<1>3. CASE Credit
  BY <1>3, CreditTypes, BooksAssumption DEF Credit, Client
<1>4. CASE Reconcile
  BY <1>4, ReconcileTypes, BooksAssumption DEF Reconcile, Client
<1>5. CASE MeterTick
  <2>1. PICK burn \in Amounts :
          /\ Client(metered_transaction(burn) /\ UNCHANGED rent_sats)
          /\ meter' = IF MeteredOutcome(burn) = "Debited" THEN burn ELSE 0
    BY <1>5 DEF MeterTick
  <2>2. burn \in Nat /\ rent_sats' \in Nat
    BY <2>1, BooksAssumption DEF Client, TreasuryTypeOK
  <2> QED
    BY <2>1, <2>2, MeteredTypes DEF Client
<1>6. CASE TickAccounted
  BY <1>6, RentTypes DEF TickAccounted, Client
<1>7. CASE Restart
  BY <1>7, OpenTypes DEF Restart
<1>8. CASE economics_snapshot \/ UNCHANGED booksVars
  BY <1>8 DEF economics_snapshot, ReadRent, ReadRemaining, ReadSpent, Reader,
    booksVars, treasuryVars, stores, TreasuryTypeOK
<1> QED
  BY <1>1, <1>2, <1>3, <1>4, <1>5, <1>6, <1>7, <1>8 DEF BooksNext

LEMMA BooksTypesInvariant == BooksSpec => []BooksTypes
<1>1. BooksInit => BooksTypes
  BY TreasuryAssumption DEF BooksInit, TreasuryInit, BooksTypes, TreasuryTypeOK, Sats
<1> QED
  BY <1>1, BooksTypesStep, PTL DEF BooksSpec

(* The balance stays between zero and u64::MAX and every row is well formed,   *)
(* whatever the clients do and wherever a restart falls (treasury.rs).         *)
THEOREM TreasuryTypesSafe == BooksSpec => []TreasuryTypeOK
<1>1. BooksTypes => TreasuryTypeOK
  BY DEF BooksTypes
<1> QED
  BY <1>1, BooksTypesInvariant, PTL

-----------------------------------------------------------------------------
(* No step of any client, a restart included, rewrites or drops a ledger row.  *)
LEMMA BooksRowsStep ==
  ASSUME BooksTypes, [BooksNext]_booksVars, NEW k \in Keys, Performed(k)
  PROVE  ledger'[k] = ledger[k]
<1> USE DEF BooksTypes
<1>1. CASE Debit
  BY <1>1, DebitKeepsRows DEF Debit, Client
<1>2. CASE IssueCharge
  BY <1>2, ChargeKeepsRows DEF IssueCharge, Client
<1>3. CASE Credit \/ Reconcile \/ MeterTick \/ TickAccounted \/ Restart
  BY <1>3 DEF Credit, Reconcile, MeterTick, TickAccounted, Restart, Client, credit_verified,
    reconcile_to_observed, metered_transaction, account_rent, Open, stores
<1>4. CASE economics_snapshot \/ UNCHANGED booksVars
  BY <1>4 DEF economics_snapshot, ReadRent, ReadRemaining, ReadSpent, Reader,
    booksVars, treasuryVars, stores
<1> QED
  BY <1>1, <1>2, <1>3, <1>4 DEF BooksNext

(* A receipt is for good: what the ledger holds for a key is what every later  *)
(* replay of the key returns (debit_and_record, record_charge_atomic).         *)
THEOREM ReceiptsAreKept == BooksSpec => ReceiptsKept
<1>1. BooksTypes /\ [BooksNext]_booksVars
        => [\A k \in Keys : Performed(k) => ledger'[k] = ledger[k]]_booksVars
  BY BooksRowsStep
<1> QED
  BY <1>1, BooksTypesInvariant, PTL DEF BooksSpec, ReceiptsKept

(* A settled charge is settled for good: its row never changes and nothing is  *)
(* credited under it again (credit_verified).                                  *)
LEMMA ResolvedStep ==
  ASSUME BooksTypes, [BooksNext]_booksVars, NEW c \in Charges, Resolved(c)
  PROVE  credit_ledger'[c] = credit_ledger[c] /\ credited'[c] = credited[c]
<1> USE DEF BooksTypes
<1>1. CASE Credit
  BY <1>1, CreditKeepsResolved DEF Credit, Client
<1>2. CASE Debit \/ IssueCharge \/ Reconcile \/ MeterTick \/ TickAccounted \/ Restart
  BY <1>2 DEF Debit, IssueCharge, Reconcile, MeterTick, TickAccounted, Restart, Client,
    debit_and_record, record_charge_atomic, reconcile_to_observed,
    metered_transaction, account_rent, Open, stores
<1>3. CASE economics_snapshot \/ UNCHANGED booksVars
  BY <1>3 DEF economics_snapshot, ReadRent, ReadRemaining, ReadSpent, Reader,
    booksVars, treasuryVars, stores
<1> QED
  BY <1>1, <1>2, <1>3 DEF BooksNext

THEOREM ChargesResolvedForGood == BooksSpec => ResolvedForGood
<1>1. BooksTypes /\ [BooksNext]_booksVars
        => [\A c \in Charges : Resolved(c) =>
              credit_ledger'[c] = credit_ledger[c] /\ credited'[c] = credited[c]]_booksVars
  BY ResolvedStep
<1> QED
  BY <1>1, BooksTypesInvariant, PTL DEF BooksSpec, ResolvedForGood

-----------------------------------------------------------------------------
(* What every step of the books is to the treasury: one transaction, or none.  *)
LEMMA BooksTransact == ASSUME [BooksNext]_booksVars PROVE Transacts
<1>1. CASE Debit
  <2>1. PICK k \in Keys, cost \in Amounts : debit_and_record(k, cost, NoHash)
    BY <1>1 DEF Debit, Client
  <2> QED
    BY <2>1, BooksAssumption DEF Transacts
<1>2. CASE IssueCharge
  <2>1. PICK k \in Keys, c \in Charges, rail \in Rails, h \in Hashes :
          record_charge_atomic(k, c, rail, h)
    BY <1>2 DEF IssueCharge, Client
  <2> QED
    BY <2>1 DEF Transacts
<1>3. CASE Credit
  <2>1. PICK c \in Charges, amount \in Amounts : credit_verified(c, amount)
    BY <1>3 DEF Credit, Client
  <2> QED
    BY <2>1, BooksAssumption DEF Transacts
<1>4. CASE Reconcile
  <2>1. PICK observed \in Observations : reconcile_to_observed(observed)
    BY <1>4 DEF Reconcile, Client
  <2> QED
    BY <2>1, BooksAssumption DEF Transacts
<1>5. CASE MeterTick
  <2>1. PICK burn \in Amounts : metered_transaction(burn)
    BY <1>5 DEF MeterTick, Client
  <2> QED
    BY <2>1, BooksAssumption DEF Transacts
<1>6. CASE TickAccounted \/ Restart \/ economics_snapshot \/ UNCHANGED booksVars
  BY <1>6 DEF Transacts, TickAccounted, Restart, Client, account_rent, Open, stores,
    economics_snapshot, ReadRent, ReadRemaining, ReadSpent, Reader, booksVars, treasuryVars
<1> QED
  BY <1>1, <1>2, <1>3, <1>4, <1>5, <1>6 DEF BooksNext

(* The treasury under all its clients at once keeps the account of the agent:  *)
(* every act is paid once, every payment received once, and nothing else but   *)
(* rent and the boot reconcile moves the balance (treasury.rs).                *)
THEOREM BooksKeepTheAccount == BooksSpec => KeepsTheAccount
<1>1. BooksInit => Account!Init /\ RowsOfCredits
  BY AccountOpens DEF BooksInit
<1>2. BooksTypes /\ RowsOfCredits /\ [BooksNext]_booksVars
        => [Account!Next]_Account!vars /\ RowsOfCredits'
  BY BooksTransact, TransactsKeepAccount DEF BooksTypes
<1> QED
  BY <1>1, <1>2, BooksTypesInvariant, PTL DEF BooksSpec, KeepsTheAccount, Account!Spec

(* The poll index is exact: a charge writes both trees or neither, and the row *)
(* of a debit names no charge.                                                 *)
LEMMA IndexedStep ==
  ASSUME TreasuryTypeOK, IndexedIffRecorded, Transacts
  PROVE  IndexedIffRecorded'
<1>1. ASSUME NEW k \in Keys, NEW c \in Charges \cup {NoCharge}, NEW rail \in Rails,
             NEW h \in Hashes \cup {NoHash}, record_charge_atomic(k, c, rail, h)
      PROVE  IndexedIffRecorded'
  <2>1. CASE Performed(k)
    BY <1>1, <2>1 DEF record_charge_atomic, IndexedIffRecorded, Performed
  <2>2. CASE ~Performed(k)
    <3>1. /\ issued_charges' = [issued_charges EXCEPT ![c] = rail]
          /\ \A j \in Keys \ {k} : ledger'[j] = ledger[j]
          /\ ledger'[k].proof = c
      BY <1>1, <2>2 DEF record_charge_atomic, TreasuryTypeOK
    <3>2. Performed(k)' /\ rail # NoRow
      <4>1. [cost_sats |-> 0, after |-> balance, proof |-> c, request_hash |-> h]
              \in PerformedRecord
        BY TreasuryAssumption DEF TreasuryTypeOK, Sats, PerformedRecord
      <4> QED
        BY <1>1, <2>2, <4>1, NoRowAssumption
        DEF record_charge_atomic, TreasuryTypeOK, Performed
    <3>3. ASSUME NEW d \in Charges
          PROVE  issued_charges'[d] # NoRow
                   <=> \E j \in Keys : Performed(j)' /\ ledger'[j].proof = d
      BY <2>2, <3>1, <3>2 DEF IndexedIffRecorded, Performed, TreasuryTypeOK
    <3> QED
      BY <3>3 DEF IndexedIffRecorded
  <2> QED
    BY <2>1, <2>2
<1>2. ASSUME NEW k \in Keys, NEW cost \in Nat, NEW h \in Hashes \cup {NoHash},
             debit_and_record(k, cost, h)
      PROVE  IndexedIffRecorded'
  <2>1. /\ issued_charges' = issued_charges
        /\ \A j \in Keys \ {k} : ledger'[j] = ledger[j]
        /\ ledger'[k] = ledger[k] \/ (~Performed(k) /\ ledger'[k].proof = NoCharge)
    BY <1>2 DEF debit_and_record, DebitOutcome, TreasuryTypeOK
  <2>2. ASSUME NEW d \in Charges, NEW j \in Keys
        PROVE  (Performed(j) /\ ledger[j].proof = d)
                 <=> (Performed(j)' /\ ledger'[j].proof = d)
    <3>1. CASE j = k
      BY <2>1, <3>1, TreasuryAssumption DEF Performed
    <3>2. CASE j # k
      BY <2>1, <3>2 DEF Performed
    <3> QED
      BY <3>1, <3>2
  <2> QED
    BY <2>1, <2>2 DEF IndexedIffRecorded
<1>3. CASE ledger' = ledger /\ issued_charges' = issued_charges
  BY <1>3 DEF IndexedIffRecorded, Performed
<1> QED
  BY <1>1, <1>2, <1>3 DEF Transacts, credit_verified, metered_transaction, reconcile_to_observed,
    stores

(* A charge is polled for exactly when a ledger row carries it, across every   *)
(* race on its key and every restart (record_charge_atomic).                   *)
THEOREM IndexIsExact == BooksSpec => []IndexedIffRecorded
<1>1. BooksInit => IndexedIffRecorded
  BY DEF BooksInit, TreasuryInit, IndexedIffRecorded, Performed
<1>2. BooksTypes /\ IndexedIffRecorded /\ [BooksNext]_booksVars => IndexedIffRecorded'
  BY IndexedStep, BooksTransact DEF BooksTypes
<1> QED
  BY <1>1, <1>2, BooksTypesInvariant, PTL DEF BooksSpec

-----------------------------------------------------------------------------
(* Sums over the ledgers.  Induction over the subsets of a finite set, in the  *)
(* form of a minimal one: a class of subsets that has every set whose proper   *)
(* subsets it has is the class of all.                                         *)
LEMMA SubsetInduction ==
  ASSUME NEW U, IsFiniteSet(U), NEW A \in SUBSET SUBSET U,
         \A T \in SUBSET U : (\A S \in SUBSET T : S # T => S \in A) => T \in A
  PROVE  A = SUBSET U
<1> SUFFICES ASSUME A # SUBSET U PROVE FALSE
  OBVIOUS
<1> DEFINE B == (SUBSET U) \ A
<1>1. B \subseteq SUBSET U /\ B # {}
  OBVIOUS
<1>2. IsWellFoundedOn(StrictSubsetOrdering(U), SUBSET U)
  <2>1. FiniteSubsetsOf(U) = SUBSET U
    BY FS_FiniteSubsetsOfFinite
  <2>2. IsWellFoundedOn(StrictSubsetOrdering(U), FiniteSubsetsOf(U))
    BY FS_StrictSubsetOrderingWellFounded
  <2> QED
    BY <2>1, <2>2
<1>3. PICK T : /\ T \in SUBSET U /\ T \notin A
               /\ \A S \in B : ~ (<<S, T>> \in StrictSubsetOrdering(U))
  <2>1. \E T \in B : \A S \in B : ~ (<<S, T>> \in StrictSubsetOrdering(U))
    <3> HIDE DEF B
    <3> QED
      BY <1>1, <1>2, WFMin
  <2> QED
    BY <2>1
<1>4. ASSUME NEW S \in SUBSET T, S # T PROVE S \in A
  <2>1. <<S, T>> \in (SUBSET U) \X (SUBSET U) /\ <<S, T>>[1] = S /\ <<S, T>>[2] = T
    BY <1>3, <1>4
  <2>2. <<S, T>> \in StrictSubsetOrdering(U)
    BY <1>4, <2>1 DEF StrictSubsetOrdering
  <2> QED
    BY <1>3, <1>4, <2>2
<1>5. T \in A
  BY <1>3, <1>4
<1> QED
  BY <1>3, <1>5

(* The partial sums of MapThenSumSet: g is those of v over the subsets of T.   *)
First(s) == CHOOSE x \in s : TRUE
Sums(g, v, T) ==
  g = [s \in SUBSET T |-> IF s = {} THEN 0 ELSE v[First(s)] + g[s \ {First(s)}]]

LEMMA FirstIsIn == \A s : s # {} => First(s) \in s
BY DEF First

LEMMA SumsAgree ==
  ASSUME NEW U, IsFiniteSet(U), NEW T \in SUBSET U, NEW W \in SUBSET U,
         NEW v, NEW g, NEW h, Sums(g, v, T), Sums(h, v, W)
  PROVE  \A s \in SUBSET (T \cap W) : g[s] = h[s]
<1> DEFINE A == {s \in SUBSET U : s \in SUBSET (T \cap W) => g[s] = h[s]}
<1>1. ASSUME NEW s \in SUBSET U, \A r \in SUBSET s : r # s => r \in A, s \in SUBSET (T \cap W)
      PROVE  g[s] = h[s]
  <2>1. /\ g[s] = IF s = {} THEN 0 ELSE v[First(s)] + g[s \ {First(s)}]
        /\ h[s] = IF s = {} THEN 0 ELSE v[First(s)] + h[s \ {First(s)}]
    BY <1>1 DEF Sums
  <2>2. s # {} => s \ {First(s)} \in A
    BY <1>1, FirstIsIn
  <2>3. s # {} => g[s \ {First(s)}] = h[s \ {First(s)}]
    BY <1>1, <2>2
  <2> QED
    BY <2>1, <2>3
<1>2. A = SUBSET U
  <2>1. \A s \in SUBSET U : (\A r \in SUBSET s : r # s => r \in A) => s \in A
    BY <1>1
  <2>2. A \in SUBSET SUBSET U
    OBVIOUS
  <2> HIDE DEF A
  <2> QED
    BY <2>1, <2>2, SubsetInduction
<1> QED
  BY <1>2

LEMMA SumsExist ==
  ASSUME NEW U, IsFiniteSet(U), NEW v
  PROVE  \E g : Sums(g, v, U)
<1> DEFINE A == {T \in SUBSET U : \E g : Sums(g, v, T)}
<1>1. ASSUME NEW T \in SUBSET U, \A S \in SUBSET T : S # T => S \in A
      PROVE  \E g : Sums(g, v, T)
  <2> DEFINE G(S) == CHOOSE g : Sums(g, v, S)
             rest(s) == s \ {First(s)}
             h == [s \in SUBSET T |-> IF s = {} THEN 0 ELSE v[First(s)] + G(rest(s))[rest(s)]]
  <2>1. \A S \in SUBSET T : S # T => Sums(G(S), v, S)
    BY <1>1
  <2>2. \A s \in SUBSET T : s # {} => rest(s) \in SUBSET s /\ rest(s) \in SUBSET T /\ rest(s) # T /\ rest(s) # s
    BY FirstIsIn
  <2>3. ASSUME NEW s \in SUBSET T, s # T PROVE h[s] = G(s)[s]
    <3>1. G(s)[s] = IF s = {} THEN 0 ELSE v[First(s)] + G(s)[rest(s)]
      <4>1. Sums(G(s), v, s)
        BY <2>1, <2>3
      <4> HIDE DEF G
      <4> QED
        BY <4>1 DEF Sums
    <3>2. s # {} => G(s)[rest(s)] = G(rest(s))[rest(s)]
      <4> SUFFICES ASSUME s # {} PROVE G(s)[rest(s)] = G(rest(s))[rest(s)]
        OBVIOUS
      <4>1. Sums(G(s), v, s) /\ Sums(G(rest(s)), v, rest(s))
        BY <2>1, <2>2, <2>3
      <4>2. s \in SUBSET U /\ rest(s) \in SUBSET U /\ rest(s) \in SUBSET (s \cap rest(s))
        BY <2>2
      <4> HIDE DEF G, rest
      <4> QED
        BY <4>1, <4>2, SumsAgree
    <3> HIDE DEF G
    <3> QED
      BY <3>1, <3>2
  <2>4. ASSUME NEW s \in SUBSET T, s # {} PROVE G(rest(s))[rest(s)] = h[rest(s)]
    <3>1. rest(s) \in SUBSET T /\ rest(s) # T
      BY <2>2, <2>4
    <3> HIDE DEF G, rest, h
    <3> QED
      BY <2>3, <3>1
  <2>5. h = [s \in SUBSET T |-> IF s = {} THEN 0 ELSE v[First(s)] + h[rest(s)]]
    <3>1. \A s \in SUBSET T : h[s] = IF s = {} THEN 0 ELSE v[First(s)] + h[rest(s)]
      <4>1. \A s \in SUBSET T : h[s] = IF s = {} THEN 0 ELSE v[First(s)] + G(rest(s))[rest(s)]
        <5> HIDE DEF G, rest
        <5> QED
          OBVIOUS
      <4> HIDE DEF G, rest, h
      <4> QED
        BY <2>4, <4>1
    <3>2. h = [s \in SUBSET T |-> h[s]]
      <4> HIDE DEF G, rest
      <4> QED
        OBVIOUS
    <3> HIDE DEF h, G, rest
    <3> QED
      BY <3>1, <3>2
  <2> HIDE DEF G, h
  <2>6. Sums(h, v, T)
    BY <2>5 DEF Sums
  <2> QED
    BY <2>6
<1>2. A = SUBSET U
  <2>1. \A T \in SUBSET U : (\A S \in SUBSET T : S # T => S \in A) => T \in A
    BY <1>1
  <2>2. A \in SUBSET SUBSET U
    OBVIOUS
  <2> HIDE DEF A
  <2> QED
    BY <2>1, <2>2, SubsetInduction
<1> QED
  BY <1>2

(* A sum is a number, zero if its terms are, and not below it if they are not. *)
LEMMA SumsAreNumbers ==
  ASSUME NEW U, IsFiniteSet(U), NEW v \in [U -> Int], NEW g, Sums(g, v, U)
  PROVE  /\ g[U] \in Int
         /\ (\A x \in U : v[x] = 0) => g[U] = 0
         /\ (\A x \in U : v[x] >= 0) => g[U] >= 0
<1> DEFINE A == {s \in SUBSET U : /\ g[s] \in Int
                                  /\ (\A x \in U : v[x] = 0) => g[s] = 0
                                  /\ (\A x \in U : v[x] >= 0) => g[s] >= 0}
<1>1. ASSUME NEW s \in SUBSET U, \A r \in SUBSET s : r # s => r \in A
      PROVE  s \in A
  <2>1. g[s] = IF s = {} THEN 0 ELSE v[First(s)] + g[s \ {First(s)}]
    BY DEF Sums
  <2>2. CASE s = {}
    BY <2>1, <2>2
  <2>3. CASE s # {}
    <3>1. First(s) \in s /\ s \ {First(s)} \in A
      BY <1>1, <2>3, FirstIsIn
    <3>2. /\ v[First(s)] \in Int /\ g[s \ {First(s)}] \in Int
          /\ (\A x \in U : v[x] = 0) => v[First(s)] = 0 /\ g[s \ {First(s)}] = 0
          /\ (\A x \in U : v[x] >= 0) => v[First(s)] >= 0 /\ g[s \ {First(s)}] >= 0
      BY <3>1
    <3> QED
      BY <2>1, <2>3, <3>2
  <2> QED
    BY <2>2, <2>3
<1>2. A = SUBSET U
  <2>1. \A s \in SUBSET U : (\A r \in SUBSET s : r # s => r \in A) => s \in A
    BY <1>1
  <2>2. A \in SUBSET SUBSET U
    OBVIOUS
  <2> HIDE DEF A
  <2> QED
    BY <2>1, <2>2, SubsetInduction
<1>3. U \in A
  BY <1>2
<1> QED
  BY <1>3

(* A sum moves by what one of its terms moves by.                              *)
LEMMA SumsMove ==
  ASSUME NEW U, IsFiniteSet(U), NEW v \in [U -> Int], NEW w \in [U -> Int], NEW g, NEW h,
         Sums(g, v, U), Sums(h, w, U), NEW x \in U, \A y \in U \ {x} : w[y] = v[y]
  PROVE  g[U] \in Int /\ h[U] = g[U] + w[x] - v[x]
<1> DEFINE A == {s \in SUBSET U : g[s] \in Int /\ h[s] = g[s] + (IF x \in s THEN w[x] - v[x] ELSE 0)}
<1>1. ASSUME NEW s \in SUBSET U, \A r \in SUBSET s : r # s => r \in A
      PROVE  s \in A
  <2>1. /\ g[s] = IF s = {} THEN 0 ELSE v[First(s)] + g[s \ {First(s)}]
        /\ h[s] = IF s = {} THEN 0 ELSE w[First(s)] + h[s \ {First(s)}]
    BY DEF Sums
  <2>2. CASE s = {}
    BY <2>1, <2>2
  <2>3. CASE s # {}
    <3>1. First(s) \in s /\ s \ {First(s)} \in A
      BY <1>1, <2>3, FirstIsIn
    <3>2. /\ g[s \ {First(s)}] \in Int /\ v[First(s)] \in Int /\ w[First(s)] \in Int
          /\ v[x] \in Int /\ w[x] \in Int
          /\ h[s \ {First(s)}] = g[s \ {First(s)}] + (IF x \in s \ {First(s)} THEN w[x] - v[x] ELSE 0)
      BY <3>1
    <3>3. CASE First(s) = x
      BY <2>1, <2>3, <3>1, <3>2, <3>3
    <3>4. CASE First(s) # x
      <4>1. w[First(s)] = v[First(s)] /\ (x \in s <=> x \in s \ {First(s)})
        BY <3>1, <3>4
      <4> QED
        BY <2>1, <2>3, <3>2, <4>1
    <3> QED
      BY <3>3, <3>4
  <2> QED
    BY <2>2, <2>3
<1>2. A = SUBSET U
  <2>1. \A s \in SUBSET U : (\A r \in SUBSET s : r # s => r \in A) => s \in A
    BY <1>1
  <2>2. A \in SUBSET SUBSET U
    OBVIOUS
  <2> HIDE DEF A
  <2> QED
    BY <2>1, <2>2, SubsetInduction
<1>3. U \in A
  BY <1>2
<1> QED
  BY <1>3

(* What spent_sats and CreditedSats are sums of.                               *)
Costs == [k \in Keys |-> CostOf(k)]

LEMMA SpentIsSum ==
  ASSUME IsFiniteSet(Keys)
  PROVE  \E g : Sums(g, Costs, Keys) /\ spent_sats = g[Keys]
<1>1. PICK v : v = Costs
  OBVIOUS
<1> DEFINE Terms(g) == [s \in SUBSET Keys |-> IF s = {} THEN 0 ELSE CostOf(First(s)) + g[s \ {First(s)}]]
           sums == CHOOSE g : g = Terms(g)
<1>2. \A g : Sums(g, v, Keys) <=> g = Terms(g)
  <2>1. \A s \in SUBSET Keys : s # {} => v[First(s)] = CostOf(First(s))
    BY <1>1, FirstIsIn DEF Costs
  <2>2. \A g : Terms(g) = [s \in SUBSET Keys |-> IF s = {} THEN 0 ELSE v[First(s)] + g[s \ {First(s)}]]
    BY <2>1
  <2> HIDE DEF Terms
  <2> QED
    BY <2>2 DEF Sums
<1>3. \E g : g = Terms(g)
  BY <1>2, SumsExist
<1>4. sums = Terms(sums)
  <2> HIDE DEF Terms
  <2> QED
    BY <1>3
<1>5. spent_sats = sums[Keys]
  BY DEF spent_sats, MapThenSumSet, MapThenFoldSet, First
<1> HIDE DEF sums, Terms
<1> QED
  BY <1>1, <1>2, <1>4, <1>5

LEMMA CreditIsSum ==
  ASSUME IsFiniteSet(Charges)
  PROVE  \E g : Sums(g, credited, Charges) /\ CreditedSats = g[Charges]
<1>1. PICK v : v = credited
  OBVIOUS
<1> DEFINE Terms(g) == [s \in SUBSET Charges |-> IF s = {} THEN 0 ELSE credited[First(s)] + g[s \ {First(s)}]]
           sums == CHOOSE g : g = Terms(g)
<1>2. \A g : Sums(g, v, Charges) <=> g = Terms(g)
  <2>1. \A s \in SUBSET Charges : s # {} => v[First(s)] = credited[First(s)]
    BY <1>1, FirstIsIn
  <2>2. \A g : Terms(g) = [s \in SUBSET Charges |-> IF s = {} THEN 0 ELSE v[First(s)] + g[s \ {First(s)}]]
    BY <2>1
  <2> HIDE DEF Terms
  <2> QED
    BY <2>2 DEF Sums
<1>3. \E g : g = Terms(g)
  BY <1>2, SumsExist
<1>4. sums = Terms(sums)
  <2> HIDE DEF Terms
  <2> QED
    BY <1>3
<1>5. CreditedSats = sums[Charges]
  BY DEF CreditedSats, MapThenSumSet, MapThenFoldSet, First
<1> HIDE DEF sums, Terms
<1> QED
  BY <1>1, <1>2, <1>4, <1>5

LEMMA SumsOverTheBooks ==
  ASSUME IsFiniteSet(Keys), IsFiniteSet(Charges)
  PROVE  /\ \E g : Sums(g, Costs, Keys) /\ spent_sats = g[Keys]
         /\ (\E g : Sums(g, Costs, Keys) /\ spent_sats = g[Keys])'
         /\ \E g : Sums(g, credited, Charges) /\ CreditedSats = g[Charges]
         /\ (\E g : Sums(g, credited, Charges) /\ CreditedSats = g[Charges])'
<1>1. \E g : Sums(g, Costs, Keys) /\ spent_sats = g[Keys]
  BY SpentIsSum
<1>2. (\E g : Sums(g, Costs, Keys) /\ spent_sats = g[Keys])'
  BY SpentIsSum, PTL
<1>3. \E g : Sums(g, credited, Charges) /\ CreditedSats = g[Charges]
  BY CreditIsSum
<1>4. (\E g : Sums(g, credited, Charges) /\ CreditedSats = g[Charges])'
  BY CreditIsSum, PTL
<1> QED
  BY <1>1, <1>2, <1>3, <1>4

\* The sum of the costs moves by what the cost of one key moves by, the credits by one credit.
LEMMA SpentMoves ==
  ASSUME IsFiniteSet(Keys), IsFiniteSet(Charges), TreasuryTypeOK, TreasuryTypeOK', NEW k \in Keys,
         \A j \in Keys \ {k} : ledger'[j] = ledger[j]
  PROVE  spent_sats \in Int /\ spent_sats' = spent_sats + Costs'[k] - Costs[k]
<1>1. PICK v : v = Costs
  OBVIOUS
<1>2. PICK w : w = Costs'
  OBVIOUS
<1>3. PICK g : Sums(g, v, Keys) /\ spent_sats = g[Keys]
  BY <1>1, SumsOverTheBooks
<1>4. PICK h : Sums(h, w, Keys) /\ spent_sats' = h[Keys]
  BY <1>2, SumsOverTheBooks DEF Sums
<1>5. v \in [Keys -> Int]
  BY <1>1 DEF Costs, CostOf, Performed, TreasuryTypeOK, PerformedRecord, Sats
<1>6. w \in [Keys -> Int]
  BY <1>2 DEF Costs, CostOf, Performed, TreasuryTypeOK, PerformedRecord, Sats
<1>7. \A j \in Keys \ {k} : w[j] = v[j]
  BY <1>1, <1>2 DEF Costs, CostOf, Performed
<1> QED
  BY <1>1, <1>2, <1>3, <1>4, <1>5, <1>6, <1>7, SumsMove

LEMMA CreditMoves ==
  ASSUME IsFiniteSet(Keys), IsFiniteSet(Charges), TreasuryTypeOK, TreasuryTypeOK', NEW c \in Charges,
         \A d \in Charges \ {c} : credited'[d] = credited[d]
  PROVE  CreditedSats \in Int /\ CreditedSats' = CreditedSats + credited'[c] - credited[c]
<1>1. PICK v : v = credited
  OBVIOUS
<1>2. PICK w : w = credited'
  OBVIOUS
<1>3. PICK g : Sums(g, v, Charges) /\ CreditedSats = g[Charges]
  BY <1>1, SumsOverTheBooks
<1>4. PICK h : Sums(h, w, Charges) /\ CreditedSats' = h[Charges]
  BY <1>2, SumsOverTheBooks DEF Sums
<1>5. v \in [Charges -> Int] /\ w \in [Charges -> Int]
  BY <1>1, <1>2 DEF TreasuryTypeOK
<1> QED
  BY <1>1, <1>2, <1>3, <1>4, <1>5, SumsMove

\* The sums are numbers, and stay while their ledgers do.
LEMMA SumsStay ==
  ASSUME IsFiniteSet(Keys), IsFiniteSet(Charges), TreasuryTypeOK
  PROVE  /\ spent_sats \in Int /\ CreditedSats \in Int
         /\ ledger' = ledger => spent_sats' = spent_sats
         /\ credited' = credited => CreditedSats' = CreditedSats
<1>1. PICK v : v = Costs
  OBVIOUS
<1>2. PICK w : w = credited
  OBVIOUS
<1>3. v \in [Keys -> Int] /\ w \in [Charges -> Int]
  BY <1>1, <1>2 DEF Costs, CostOf, Performed, TreasuryTypeOK, PerformedRecord, Sats
<1>4. PICK g : Sums(g, v, Keys) /\ spent_sats = g[Keys]
  BY <1>1, SumsOverTheBooks
<1>5. PICK h : Sums(h, w, Charges) /\ CreditedSats = h[Charges]
  BY <1>2, SumsOverTheBooks
<1>6. ledger' = ledger => spent_sats' = spent_sats
  <2> SUFFICES ASSUME ledger' = ledger PROVE spent_sats' = spent_sats
    OBVIOUS
  <2>1. v = Costs'
    BY <1>1 DEF Costs, CostOf, Performed
  <2>2. PICK i : Sums(i, v, Keys) /\ spent_sats' = i[Keys]
    BY <2>1, SumsOverTheBooks DEF Sums
  <2> QED
    BY <1>4, <2>2, SumsAgree
<1>7. credited' = credited => CreditedSats' = CreditedSats
  <2> SUFFICES ASSUME credited' = credited PROVE CreditedSats' = CreditedSats
    OBVIOUS
  <2>1. PICK i : Sums(i, w, Charges) /\ CreditedSats' = i[Charges]
    BY <1>2, SumsOverTheBooks DEF Sums
  <2> QED
    BY <1>5, <2>1, SumsAgree
<1> QED
  BY <1>3, <1>4, <1>5, <1>6, <1>7, SumsAreNumbers

\* What is credited is never less than nothing.
LEMMA CreditsAreSats ==
  ASSUME IsFiniteSet(Keys), IsFiniteSet(Charges), TreasuryTypeOK
  PROVE  CreditedSats >= 0
<1>1. PICK w : w = credited
  OBVIOUS
<1>2. w \in [Charges -> Int] /\ \A c \in Charges : w[c] >= 0
  BY <1>1 DEF TreasuryTypeOK
<1>3. PICK h : Sums(h, w, Charges) /\ CreditedSats = h[Charges]
  BY <1>1, SumsOverTheBooks
<1> QED
  BY <1>2, <1>3, SumsAreNumbers

-----------------------------------------------------------------------------
(* A sat that leaves the balance is in a row or in the rent, and one that      *)
(* enters it is under a charge or in the adjustments.                          *)
LEMMA BalanceStep ==
  ASSUME IsFiniteSet(Keys), IsFiniteSet(Charges), TreasuryTypeOK, TreasuryTypeOK', BooksBalance,
         Transacts
  PROVE  BooksBalance'
<1>1. /\ spent_sats \in Int /\ CreditedSats \in Int
      /\ balance \in Int /\ balance' \in Int /\ burned \in Int /\ adjusted \in Int /\ InitialSats \in Int
  BY SumsStay, TreasuryAssumption DEF TreasuryTypeOK, Sats
<1>2. /\ ledger' = ledger => spent_sats' = spent_sats
      /\ credited' = credited => CreditedSats' = CreditedSats
  BY SumsStay
<1> USE DEF BooksBalance
<1>3. ASSUME NEW k \in Keys, NEW cost \in Nat, NEW h \in Hashes \cup {NoHash},
             debit_and_record(k, cost, h)
      PROVE  BooksBalance'
  <2>1. UNCHANGED <<credited, burned, adjusted>>
    BY <1>3 DEF debit_and_record
  <2>2. CASE DebitOutcome(k, cost) = "Debited"
    <3>1. /\ balance' = balance - cost /\ ~Performed(k) /\ ~(cost > balance)
          /\ ledger' = [ledger EXCEPT ![k] = [cost_sats |-> cost, after |-> balance - cost,
                                              proof |-> NoCharge, request_hash |-> h]]
      BY <1>3, <2>2 DEF debit_and_record, DebitOutcome
    <3>2. ledger'[k].cost_sats = cost /\ (\A j \in Keys \ {k} : ledger'[j] = ledger[j])
      BY <3>1 DEF TreasuryTypeOK
    <3>3. Performed(k)'
      <4>1. ledger'[k] = [cost_sats |-> cost, after |-> balance - cost,
                          proof |-> NoCharge, request_hash |-> h]
        BY <3>1 DEF TreasuryTypeOK
      <4>2. cost \in Sats /\ balance - cost \in Sats
        BY <3>1, TreasuryAssumption DEF TreasuryTypeOK, Sats
      <4>3. ledger'[k] \in PerformedRecord
        BY <4>1, <4>2 DEF PerformedRecord
      <4> QED
        BY <4>3, NoRowAssumption DEF Performed
    <3>4. Costs'[k] = cost /\ Costs[k] = 0
      BY <3>1, <3>2, <3>3 DEF Costs, CostOf
    <3>5. spent_sats' = spent_sats + cost
      BY <1>1, <3>2, <3>4, SpentMoves
    <3> QED
      BY <1>1, <1>2, <2>1, <3>1, <3>5
  <2>3. CASE DebitOutcome(k, cost) # "Debited"
    BY <1>1, <1>2, <1>3, <2>1, <2>3 DEF debit_and_record
  <2> QED
    BY <2>2, <2>3
<1>4. ASSUME NEW k \in Keys, NEW c \in Charges \cup {NoCharge}, NEW rail \in Rails,
             NEW h \in Hashes \cup {NoHash}, record_charge_atomic(k, c, rail, h)
      PROVE  BooksBalance'
  <2>1. UNCHANGED <<balance, credited, burned, adjusted>>
    BY <1>4 DEF record_charge_atomic
  <2>2. CASE Performed(k)
    BY <1>1, <1>2, <1>4, <2>1, <2>2 DEF record_charge_atomic
  <2>3. CASE ~Performed(k)
    <3>1. ledger'[k].cost_sats = 0 /\ (\A j \in Keys \ {k} : ledger'[j] = ledger[j])
      BY <1>4, <2>3 DEF record_charge_atomic, TreasuryTypeOK
    <3>2. Costs'[k] = 0 /\ Costs[k] = 0
      BY <2>3, <3>1 DEF Costs, CostOf
    <3>3. spent_sats' = spent_sats
      BY <1>1, <3>1, <3>2, SpentMoves
    <3> QED
      BY <1>1, <1>2, <2>1, <3>3
  <2> QED
    BY <2>2, <2>3
<1>5. ASSUME NEW c \in Charges, NEW amount \in Nat, credit_verified(c, amount)
      PROVE  BooksBalance'
  <2>1. UNCHANGED <<ledger, burned, adjusted>>
    BY <1>5 DEF credit_verified
  <2>2. CASE CreditOutcome(c, amount) = "Credited"
    <3>1. balance' = balance + amount /\ credited' = [credited EXCEPT ![c] = @ + amount]
      BY <1>5, <2>2 DEF credit_verified
    <3>2. /\ credited[c] \in Int /\ credited'[c] = credited[c] + amount
          /\ \A d \in Charges \ {c} : credited'[d] = credited[d]
      BY <3>1 DEF TreasuryTypeOK
    <3>3. CreditedSats' = CreditedSats + amount
      BY <1>1, <3>2, CreditMoves
    <3> QED
      BY <1>1, <1>2, <2>1, <3>1, <3>3
  <2>3. CASE CreditOutcome(c, amount) # "Credited"
    <3>1. UNCHANGED <<balance, credited>>
      BY <1>5, <2>3 DEF credit_verified, CreditOutcome, classify_prior
    <3> QED
      BY <1>1, <1>2, <2>1, <3>1
  <2> QED
    BY <2>2, <2>3
<1>6. ASSUME NEW burn \in Nat, metered_transaction(burn)
      PROVE  BooksBalance'
  <2>1. /\ UNCHANGED <<ledger, credited, adjusted>>
        /\ (balance' = balance - burn /\ burned' = burned + burn) \/ UNCHANGED <<balance, burned>>
    BY <1>6 DEF metered_transaction
  <2> QED
    BY <1>1, <1>2, <2>1
<1>7. ASSUME NEW observed \in Sats, reconcile_to_observed(observed)
      PROVE  BooksBalance'
  <2>1. /\ balance' = observed /\ adjusted' = adjusted + (observed - balance)
        /\ UNCHANGED <<ledger, credited, burned>>
    BY <1>7 DEF reconcile_to_observed
  <2> QED
    BY <1>1, <1>2, <2>1
<1>8. CASE UNCHANGED <<stores, credited, burned, adjusted>>
  BY <1>1, <1>2, <1>8 DEF stores
<1> QED
  BY <1>3, <1>4, <1>5, <1>6, <1>7, <1>8 DEF Transacts

LEMMA BalanceOpens ==
  ASSUME IsFiniteSet(Keys), IsFiniteSet(Charges), TreasuryInit
  PROVE  BooksBalance
<1>1. PICK v : v = Costs
  OBVIOUS
<1>2. PICK w : w = credited
  OBVIOUS
<1>3. PICK g : Sums(g, v, Keys) /\ spent_sats = g[Keys]
  BY <1>1, SumsOverTheBooks
<1>4. PICK h : Sums(h, w, Charges) /\ CreditedSats = h[Charges]
  BY <1>2, SumsOverTheBooks
<1>5. /\ v \in [Keys -> Int] /\ \A k \in Keys : v[k] = 0
      /\ w \in [Charges -> Int] /\ \A c \in Charges : w[c] = 0
  BY <1>1, <1>2 DEF Costs, CostOf, Performed, TreasuryInit
<1>6. spent_sats = 0 /\ CreditedSats = 0
  BY <1>3, <1>4, <1>5, SumsAreNumbers
<1> QED
  BY <1>6, TreasuryAssumption DEF TreasuryInit, BooksBalance

(* No sat is lost or made (treasury.rs): over the whole life of the agent what *)
(* is left, plus every recorded cost, plus all rent, is the genesis budget     *)
(* plus every credit plus what the reconcile added, for any number of keys and *)
(* charges and for any amounts.                                                *)
THEOREM BooksAlwaysBalance ==
  ASSUME IsFiniteSet(Keys), IsFiniteSet(Charges)
  PROVE  BooksSpec => []BooksBalance
<1>1. BooksInit => BooksBalance
  BY BalanceOpens DEF BooksInit
<1>2. BooksTypes /\ BooksTypes' /\ BooksBalance /\ [BooksNext]_booksVars => BooksBalance'
  BY BalanceStep, BooksTransact DEF BooksTypes
<1> QED
  BY <1>1, <1>2, BooksTypesInvariant, PTL DEF BooksSpec

-----------------------------------------------------------------------------
(* The snapshot.  While nothing interleaves with it, the three reads describe  *)
(* one state of the treasury; and in the run that opened the store the         *)
(* in-memory rent, with the tick still to be added, is all that was burned.    *)
QuietInv ==
  /\ snap.at \in {"idle", "rent", "remaining", "done"} /\ opens \in Nat /\ reconciles \in Nat
  /\ opens = 0 => rent_sats + meter = burned
  /\ reconciles = 0 => adjusted = 0
  /\ quiet /\ snap.at # "idle" => meter = 0 /\ snap.rent = rent_sats
  /\ quiet /\ snap.at \in {"remaining", "done"} => snap.remaining = balance
  /\ quiet /\ snap.at = "done" =>
       /\ snap.spent = spent_sats
       /\ snap.income = derived_income(snap.remaining, snap.spent, snap.rent)

LEMMA QuietStep ==
  ASSUME IsFiniteSet(Keys), IsFiniteSet(Charges), BooksTypes, QuietInv, [BooksNext]_booksVars
  PROVE  QuietInv'
<1>1. /\ rent_sats \in Int /\ meter \in Int /\ burned \in Int /\ adjusted \in Int /\ balance \in Int
      /\ ledger' = ledger => spent_sats' = spent_sats
  BY SumsStay, TreasuryAssumption DEF BooksTypes, TreasuryTypeOK, Sats
<1> USE DEF QuietInv
<1>2. CASE Debit \/ IssueCharge \/ Credit
  BY <1>2 DEF Debit, IssueCharge, Credit, Client, debit_and_record, record_charge_atomic,
    credit_verified
<1>3. CASE Reconcile
  BY <1>3 DEF Reconcile, Client, reconcile_to_observed
<1>4. CASE MeterTick
  <2>1. PICK burn \in Amounts :
          /\ meter = 0 /\ metered_transaction(burn)
          /\ meter' = IF MeteredOutcome(burn) = "Debited" THEN burn ELSE 0
          /\ UNCHANGED <<rent_sats, snap, opens, reconciles>> /\ ~quiet'
    BY <1>4 DEF MeterTick, Client
  <2>2. burn \in Nat
    BY BooksAssumption
  <2> QED
    BY <1>1, <2>1, <2>2 DEF metered_transaction
<1>5. CASE TickAccounted
  BY <1>1, <1>5 DEF TickAccounted, Client, account_rent
<1>6. CASE Restart
  BY <1>6 DEF Restart, Open, Idle
<1>7. CASE ReadRent
  BY <1>7 DEF ReadRent, Reader, Idle, treasuryVars
<1>8. CASE ReadRemaining
  <2>1. /\ UNCHANGED <<treasuryVars, meter, opens, reconciles, quiet>>
        /\ snap.at = "rent" /\ snap'.at = "remaining" /\ snap'.remaining = balance
        /\ snap'.rent = snap.rent
    BY <1>8 DEF ReadRemaining, Reader
  <2> QED
    BY <2>1 DEF treasuryVars, stores
<1>9. CASE ReadSpent
  <2>1. /\ UNCHANGED <<treasuryVars, meter, opens, reconciles, quiet>>
        /\ snap.at = "remaining" /\ snap'.at = "done" /\ snap'.remaining = snap.remaining
        /\ snap'.rent = snap.rent /\ snap'.spent = spent_sats
        /\ snap'.income = derived_income(snap.remaining, spent_sats, snap.rent)
    BY <1>9 DEF ReadSpent, Reader
  <2> QED
    BY <1>1, <2>1 DEF treasuryVars, stores, derived_income, SaturatingAdd, SaturatingSub
<1>10. CASE UNCHANGED booksVars
  BY <1>1, <1>10 DEF booksVars, treasuryVars, stores, derived_income, SaturatingAdd, SaturatingSub
<1> QED
  BY <1>2, <1>3, <1>4, <1>5, <1>6, <1>7, <1>8, <1>9, <1>10 DEF BooksNext, economics_snapshot

\* Without saturation the derivation is the balance identity, solved for the credits.
LEMMA QuietIsExact ==
  ASSUME IsFiniteSet(Keys), IsFiniteSet(Charges), BooksTypes, BooksBalance, QuietInv
  PROVE  QuietSnapshotExact
<1> SUFFICES ASSUME snap.at = "done", quiet, opens = 0, reconciles = 0,
                    snap.remaining + snap.spent + snap.rent <= MaxSats
             PROVE  snap.income = CreditedSats
  BY DEF QuietSnapshotExact
<1>1. /\ balance \in Nat /\ rent_sats \in Nat /\ spent_sats \in Int /\ CreditedSats \in Int
      /\ CreditedSats >= 0 /\ InitialSats \in Int /\ MaxSats \in Int
  BY SumsStay, CreditsAreSats, TreasuryAssumption DEF BooksTypes, TreasuryTypeOK, Sats
<1>2. /\ snap.remaining = balance /\ snap.spent = spent_sats /\ snap.rent = rent_sats
      /\ snap.income = derived_income(balance, spent_sats, rent_sats)
  BY DEF QuietInv
<1>3. balance + spent_sats + rent_sats = InitialSats + CreditedSats
  <2>1. burned = rent_sats /\ adjusted = 0
    BY <1>1 DEF QuietInv
  <2> QED
    BY <1>1, <2>1 DEF BooksBalance
<1>4. balance + spent_sats + rent_sats <= MaxSats
  BY <1>2
<1>5. SaturatingAdd(SaturatingAdd(balance, spent_sats), rent_sats) = balance + spent_sats + rent_sats
  BY <1>1, <1>4 DEF SaturatingAdd
<1> QED
  BY <1>1, <1>2, <1>3, <1>5 DEF derived_income, SaturatingSub

(* A snapshot that nothing interleaves with reports exactly what was credited: *)
(* the derivation of economics_snapshot is sound at rest, for any ledger.      *)
THEOREM SnapshotExactAtRest ==
  ASSUME IsFiniteSet(Keys), IsFiniteSet(Charges)
  PROVE  BooksSpec => []QuietSnapshotExact
<1>1. BooksInit => QuietInv
  BY DEF BooksInit, TreasuryInit, QuietInv, Idle
<1>2. BooksTypes /\ QuietInv /\ [BooksNext]_booksVars => QuietInv'
  BY QuietStep
<1>3. BooksTypes /\ BooksBalance /\ QuietInv => QuietSnapshotExact
  BY QuietIsExact
<1> QED
  BY <1>1, <1>2, <1>3, BooksTypesInvariant, BooksAlwaysBalance, PTL DEF BooksSpec

-----------------------------------------------------------------------------
(* The gateway: requests of all kinds in flight at once (Gateway).             *)

(* Every act of a client is one of these steps.                                *)
Move(c) == (\E q \in Requests : Arrive(c, q)) \/ Handler(c) \/ Cancel(c)

LEMMA NextIsMove ==
  ASSUME Next
  PROVE  \/ \E c \in Clients : Move(c)
         \/ \E burn \in Burns : Tick(burn)
         \/ LeaseVerdict
         \/ Crash
BY DEF Next, Move

(* A step of one client leaves the handlers of the others where they are.      *)
LEMMA OthersStay ==
  ASSUME TypeOK, NEW c \in Clients, Move(c), NEW d \in Clients, d # c
  PROVE  /\ pc'[d] = pc[d] /\ req'[d] = req[d] /\ reply'[d] = reply[d]
         /\ actual'[d] = actual[d] /\ quoted'[d] = quoted[d]
<1> USE DEF TypeOK, RequestTypeOK, Goto, Leave, Answer
<1>1. CASE \E q \in Requests : Arrive(c, q)
  BY <1>1 DEF Arrive
<1>2. CASE Admit(c) \/ Gate(c) \/ ReservePublish(c) \/ LockEgress(c) \/ RegateEgress(c)
  BY <1>2 DEF Admit, Gate, ReservePublish, LockEgress, RegateEgress
<1>3. CASE Perform(c) \/ (\E id \in Charges : Issue(c, id)) \/ PerformFails(c)
  BY <1>3 DEF Perform, Issue, PerformFails
<1>4. CASE Record(c) \/ RecordPublish(c) \/ RecordCharge(c)
  BY <1>4 DEF Record, RecordPublish, RecordCharge
<1>5. CASE Cancel(c)
  BY <1>5 DEF Cancel
<1> QED
  BY <1>1, <1>2, <1>3, <1>4, <1>5 DEF Move, Handler

(* The handlers that hold no row yet write no row: only these three actions    *)
(* write the ledger, each under its own request's key.                         *)
LEMMA OnlyRecordsWrite ==
  ASSUME TypeOK, NEW c \in Clients, Move(c),
         ~ReservePublish(c), ~Record(c), ~RecordCharge(c)
  PROVE  UNCHANGED treasuryVars
BY DEF Move, Handler, Arrive, Admit, Gate, LockEgress, RegateEgress,
  Perform, Issue, PerformFails, RecordPublish, Cancel

(* No step rewrites or drops a ledger row.                                     *)
LEMMA RowsKeptStep ==
  ASSUME TypeOK, [Next]_vars, NEW k \in Keys, Performed(k)
  PROVE  ledger'[k] = ledger[k] /\ Performed(k)'
<1>1. ledger'[k] = ledger[k]
  <2>1. CASE \E c \in Clients : Move(c)
    <3>1. PICK c \in Clients : Move(c)
      BY <2>1
    <3>2. CASE ReservePublish(c) \/ Record(c) \/ RecordCharge(c)
      <4>1. req[c].key \in Keys
        BY <3>2, GatewayAssumption DEF ReservePublish, Record, RecordCharge,
          TypeOK, RequestTypeOK, Request
      <4> QED
        BY <3>2, <4>1, DebitKeepsRows, ChargeKeepsRows
        DEF ReservePublish, Record, RecordCharge, TypeOK
    <3> QED
      BY <3>1, <3>2, OnlyRecordsWrite DEF treasuryVars, stores
  <2>2. CASE \E burn \in Burns : Tick(burn)
    BY <2>2 DEF Tick, debit_metered, metered_transaction
  <2>3. CASE LeaseVerdict \/ Crash \/ UNCHANGED vars
    BY <2>3 DEF LeaseVerdict, Crash, Open, vars, treasuryVars, stores
  <2> QED
    BY <2>1, <2>2, <2>3, NextIsMove
<1> QED
  BY <1>1 DEF Performed

-----------------------------------------------------------------------------
(* Types.  A published or failed publish answers with the row of its key, so   *)
(* the types rest on where each act may be: a publish reaches the outward act  *)
(* through the reservation alone, and its row stays.                           *)
PlacedAt(c) ==
  /\ pc[c] = "reserve" => req[c].act = "publish"
  /\ pc[c] \in {"lock", "regate"} => req[c].act = "fetch"

ReservedAt(c) ==
  pc[c] \in {"perform", "record"} /\ req[c].act = "publish" => Performed(req[c].key)

PlacesInv == TypeOK /\ \A c \in Clients : PlacedAt(c) /\ ReservedAt(c)

RequestFacts(q) ==
  /\ q.act \in Acts /\ q.key \in Keys
  /\ q.request_hash \in Hashes \cup {NoHash}
  /\ q.estimate \in Nat /\ q.ceiling \in Nat /\ q.budget_sats \in Nat /\ q.wseq \in Nat

LEMMA RequestsTyped ==
  ASSUME NEW q \in Requests
  PROVE  RequestFacts(q)
BY GatewayAssumption DEF Request, RequestFacts

(* A receipt read from a ledger row is well formed, and so is a denial.        *)
LEMMA ReceiptTyped ==
  ASSUME TreasuryTypeOK, NEW k \in Keys, Performed(k), NEW outcome \in Outcomes
  PROVE  receipt(k, outcome) \in Receipt
BY DEF receipt, Receipt, Performed, TreasuryTypeOK, PerformedRecord, Sats

LEMMA DenialTyped ==
  ASSUME NEW k \in Keys, NEW outcome \in Outcomes
  PROVE  denied(k, outcome) \in Receipt
BY TreasuryAssumption DEF denied, Receipt, Sats

LEMMA DebitReceiptTyped ==
  ASSUME TreasuryTypeOK, NEW k \in Keys, NEW cost \in Nat,
         NEW proof \in Charges \cup {NoCharge}
  PROVE  DebitReceipt(k, cost, proof) \in Receipt
<1>1. CASE DebitOutcome(k, cost) = "Debited"
  <2>1. balance - cost \in Sats
    BY <1>1, TreasuryAssumption DEF DebitOutcome, TreasuryTypeOK, Sats
  <2> QED
    BY <1>1, <2>1 DEF DebitReceipt, Receipt, Outcomes
<1>2. CASE DebitOutcome(k, cost) = "Duplicate"
  <2>1. Performed(k)
    BY <1>2 DEF DebitOutcome
  <2>2. receipt(k, "DuplicateIgnored") \in Receipt
    BY <2>1, ReceiptTyped DEF Outcomes
  <2> QED
    BY <1>2, <2>2 DEF DebitReceipt
<1>3. CASE DebitOutcome(k, cost) \notin {"Debited", "Duplicate"}
  <2>1. denied(k, "DeniedInsufficientTreasury") \in Receipt
    BY DenialTyped DEF Outcomes
  <2> QED
    BY <1>3, <2>1 DEF DebitReceipt
<1> QED
  BY <1>1, <1>2, <1>3

LEMMA GotoTypes ==
  ASSUME RequestTypeOK, NEW c \in Clients, NEW step \in Steps, pc[c] # "idle",
         Goto(c, step), actual' \in [Clients -> Nat],
         quoted' \in [Clients -> Charges \cup {NoCharge}]
  PROVE  RequestTypeOK'
BY DEF RequestTypeOK, Goto

LEMMA AnswerTypes ==
  ASSUME RequestTypeOK, NEW c \in Clients, NEW r \in Receipt, Answer(c, r)
  PROVE  RequestTypeOK'
BY DEF RequestTypeOK, Answer, Leave, Steps

LEMMA AdmitTypes ==
  ASSUME TypeOK, NEW c \in Clients, Admit(c)
  PROVE  RequestTypeOK'
<1> DEFINE q == req[c]
<1>1. q \in Requests /\ RequestFacts(q)
  BY RequestsTyped DEF Admit, TypeOK, RequestTypeOK
<1>2. AdmitReply(q) \in Receipt
  <2>1. CASE active /\ Performed(q.key)
    <3>1. receipt(q.key, "DuplicateIgnored") \in Receipt /\ denied(q.key, "Unspecified") \in Receipt
      BY <1>1, <2>1, ReceiptTyped, DenialTyped DEF TypeOK, RequestFacts, Outcomes
    <3> QED
      BY <2>1, <3>1 DEF AdmitReply
  <2>2. CASE ~(active /\ Performed(q.key))
    <3>1. /\ denied(q.key, "DeniedNotActiveLease") \in Receipt
          /\ denied(q.key, "DeniedNotAllowlisted") \in Receipt
      BY <1>1, DenialTyped DEF RequestFacts, Outcomes
    <3> QED
      BY <2>2, <3>1 DEF AdmitReply
  <2> QED
    BY <2>1, <2>2
<1>3. CASE active /\ ~Performed(q.key) /\ q.allowed
  BY <1>3 DEF Admit, Goto, TypeOK, RequestTypeOK, Steps
<1>4. CASE ~(active /\ ~Performed(q.key) /\ q.allowed)
  BY <1>2, <1>4, AnswerTypes DEF Admit, TypeOK
<1> QED
  BY <1>3, <1>4

LEMMA GateTypes ==
  ASSUME TypeOK, NEW c \in Clients, Gate(c)
  PROVE  RequestTypeOK'
<1> DEFINE q == req[c]
<1>1. q \in Requests /\ RequestFacts(q)
  BY RequestsTyped DEF Gate, TypeOK, RequestTypeOK
<1>2. CASE GateOutcome(q) = "Passed"
  <2>1. Fork(q) \in Steps
    BY DEF Fork, Steps
  <2> QED
    BY <1>2, <2>1 DEF Gate, Goto, TypeOK, RequestTypeOK
<1>3. CASE GateOutcome(q) # "Passed"
  <2>1. GateOutcome(q) \in Outcomes
    BY <1>3 DEF GateOutcome, Outcomes
  <2>2. denied(q.key, GateOutcome(q)) \in Receipt
    BY <1>1, <2>1, DenialTyped DEF RequestFacts
  <2> QED
    BY <1>3, <2>2, AnswerTypes DEF Gate, TypeOK
<1> QED
  BY <1>2, <1>3

LEMMA ReservePublishTypes ==
  ASSUME TypeOK, NEW c \in Clients, ReservePublish(c)
  PROVE  RequestTypeOK' /\ TreasuryTypeOK'
<1> DEFINE q == req[c]
<1>1. q \in Requests /\ RequestFacts(q)
  BY RequestsTyped DEF ReservePublish, TypeOK, RequestTypeOK
<1>2. TreasuryTypeOK'
  BY <1>1, DebitTypes DEF ReservePublish, TypeOK, RequestFacts
<1>3. CASE DebitOutcome(q.key, q.estimate) = "Debited"
  BY <1>2, <1>3 DEF ReservePublish, Goto, TypeOK, RequestTypeOK, Steps
<1>4. CASE DebitOutcome(q.key, q.estimate) # "Debited"
  <2>1. DebitReceipt(q.key, q.estimate, NoCharge) \in Receipt
    BY <1>1, DebitReceiptTyped DEF TypeOK, RequestFacts
  <2> QED
    BY <1>2, <1>4, <2>1, AnswerTypes DEF ReservePublish, TypeOK
<1> QED
  BY <1>3, <1>4

LEMMA EgressTypes ==
  ASSUME TypeOK, NEW c \in Clients, LockEgress(c) \/ RegateEgress(c)
  PROVE  RequestTypeOK' /\ egress_owner' \in Clients \cup {NoClient}
<1>1. CASE LockEgress(c)
  BY <1>1 DEF LockEgress, Goto, TypeOK, RequestTypeOK, Steps
<1>2. CASE RegateEgress(c)
  <2>1. req[c] \in Requests /\ RequestFacts(req[c])
    BY <1>2, RequestsTyped DEF RegateEgress, TypeOK, RequestTypeOK
  <2>2. CASE req[c].estimate > balance
    <3>1. denied(req[c].key, "DeniedInsufficientTreasury") \in Receipt
      BY <2>1, DenialTyped DEF RequestFacts, Outcomes
    <3> QED
      BY <1>2, <2>2, <3>1, AnswerTypes DEF RegateEgress, Release, TypeOK, DaemonTypeOK
  <2>3. CASE ~(req[c].estimate > balance)
    BY <1>2, <2>3 DEF RegateEgress, Goto, TypeOK, RequestTypeOK, DaemonTypeOK, Steps
  <2> QED
    BY <2>2, <2>3
<1> QED
  BY <1>1, <1>2

LEMMA PerformTypes ==
  ASSUME TypeOK, NEW c \in Clients, Perform(c) \/ \E id \in Charges : Issue(c, id)
  PROVE  RequestTypeOK' /\ WorldTypeOK'
<1> DEFINE q == req[c]
<1>1. q \in Requests /\ RequestFacts(q)
  BY RequestsTyped DEF Perform, Issue, TypeOK, RequestTypeOK
<1>2. CASE Perform(c)
  <2>1. SpendOf(q) \subseteq Nat
    BY <1>1, <1>2 DEF Perform, SpendOf, Estimate, RequestFacts, Acts
  <2>2. actual' \in [Clients -> Nat]
    BY <1>2, <2>1 DEF Perform, TypeOK, RequestTypeOK
  <2>3. RequestTypeOK'
    BY <1>2, <2>2 DEF Perform, Goto, TypeOK, RequestTypeOK, Steps
  <2>4. WorldTypeOK'
    BY <1>1, <1>2 DEF Perform, Effect, TypeOK, WorldTypeOK, RequestFacts
  <2> QED
    BY <2>3, <2>4
<1>3. CASE \E id \in Charges : Issue(c, id)
  BY <1>3 DEF Issue, Goto, TypeOK, RequestTypeOK, WorldTypeOK, Steps
<1> QED
  BY <1>2, <1>3

LEMMA PerformFailsTypes ==
  ASSUME TypeOK, NEW c \in Clients, ReservedAt(c), PerformFails(c)
  PROVE  RequestTypeOK' /\ WorldTypeOK'
<1> DEFINE q == req[c]
<1>1. q \in Requests /\ RequestFacts(q)
  BY RequestsTyped DEF PerformFails, TypeOK, RequestTypeOK
<1> WorldTypeOK'
  BY <1>1 DEF PerformFails, Effect, TypeOK, WorldTypeOK, RequestFacts
<1>2. CASE q.act = "publish"
  <2>1. receipt(q.key, "UpstreamFailed") \in Receipt
    BY <1>1, <1>2, ReceiptTyped DEF PerformFails, ReservedAt, TypeOK, RequestFacts, Outcomes
  <2> QED
    BY <1>2, <2>1, AnswerTypes DEF PerformFails, TypeOK
<1>3. CASE q.act # "publish"
  <2>1. denied(q.key, "UpstreamFailed") \in Receipt
    BY <1>1, DenialTyped DEF RequestFacts, Outcomes
  <2> QED
    BY <1>3, <2>1, AnswerTypes DEF PerformFails, TypeOK
<1> QED
  BY <1>2, <1>3

LEMMA RecordTypes ==
  ASSUME TypeOK, NEW c \in Clients, Record(c)
  PROVE  RequestTypeOK' /\ TreasuryTypeOK' /\ WorldTypeOK' /\ DaemonTypeOK'
<1> DEFINE q == req[c]
<1>1. q \in Requests /\ RequestFacts(q) /\ actual[c] \in Nat
  BY RequestsTyped DEF Record, TypeOK, RequestTypeOK
<1>2. TreasuryTypeOK'
  BY <1>1, DebitTypes DEF Record, TypeOK, RequestFacts
<1>3. DebitReceipt(q.key, actual[c], NoCharge) \in Receipt
  BY <1>1, DebitReceiptTyped DEF TypeOK, RequestFacts
<1>4. RequestTypeOK'
  BY <1>3, AnswerTypes DEF Record, TypeOK
<1>5. WorldTypeOK' /\ DaemonTypeOK'
  BY <1>1 DEF Record, worldVars, Release, TypeOK, WorldTypeOK, DaemonTypeOK, RequestFacts
<1> QED
  BY <1>2, <1>4, <1>5

LEMMA RecordPublishTypes ==
  ASSUME TypeOK, NEW c \in Clients, ReservedAt(c), RecordPublish(c)
  PROVE  RequestTypeOK'
<1>1. req[c] \in Requests /\ RequestFacts(req[c])
  BY RequestsTyped DEF RecordPublish, TypeOK, RequestTypeOK
<1>2. receipt(req[c].key, "AuthorizedAndPerformed") \in Receipt
  BY <1>1, ReceiptTyped DEF RecordPublish, ReservedAt, TypeOK, RequestFacts, Outcomes
<1> QED
  BY <1>2, AnswerTypes DEF RecordPublish, TypeOK

LEMMA RecordChargeTypes ==
  ASSUME TypeOK, NEW c \in Clients, RecordCharge(c)
  PROVE  RequestTypeOK' /\ TreasuryTypeOK'
<1>1. req[c] \in Requests /\ RequestFacts(req[c]) /\ quoted[c] \in Charges \cup {NoCharge}
  BY RequestsTyped DEF RecordCharge, TypeOK, RequestTypeOK
<1>2. TreasuryTypeOK'
  BY <1>1, ChargeTypes DEF RecordCharge, TypeOK, RequestFacts, Rails
<1>3. DebitReceipt(req[c].key, 0, quoted[c]) \in Receipt
  BY <1>1, DebitReceiptTyped DEF TypeOK, RequestFacts
<1> QED
  BY <1>2, <1>3, AnswerTypes DEF RecordCharge, TypeOK

LEMMA MoveTypes ==
  ASSUME TypeOK, NEW c \in Clients, ReservedAt(c), Move(c)
  PROVE  TypeOK'
<1>1. CASE \E q \in Requests : Arrive(c, q)
  <2>1. PICK q \in Requests : Arrive(c, q)
    BY <1>1
  <2>2. RequestFacts(q)
    BY RequestsTyped
  <2>3. RequestTypeOK'
    BY <2>1 DEF Arrive, TypeOK, RequestTypeOK, Steps
  <2>4. sent' \in Nat /\ arrivals' \in 0..MaxArrivals
    BY <2>1, <2>2, GatewayAssumption DEF Arrive, TypeOK, RequestFacts
  <2> QED
    BY <2>1, <2>3, <2>4 DEF Arrive, treasuryVars, stores, daemonVars, worldVars,
      TypeOK, TreasuryTypeOK, DaemonTypeOK, WorldTypeOK
<1>2. CASE Admit(c) \/ Gate(c) \/ RecordPublish(c)
  BY <1>2, AdmitTypes, GateTypes, RecordPublishTypes DEF Admit, Gate, RecordPublish,
    treasuryVars, stores, daemonVars, worldVars, boundVars,
    TypeOK, TreasuryTypeOK, DaemonTypeOK, WorldTypeOK
<1>3. CASE ReservePublish(c) \/ RecordCharge(c)
  BY <1>3, ReservePublishTypes, RecordChargeTypes DEF ReservePublish, RecordCharge,
    daemonVars, worldVars, boundVars, TypeOK, DaemonTypeOK, WorldTypeOK
<1>4. CASE LockEgress(c) \/ RegateEgress(c)
  BY <1>4, EgressTypes DEF LockEgress, RegateEgress, treasuryVars, stores, worldVars,
    boundVars, TypeOK, TreasuryTypeOK, DaemonTypeOK, WorldTypeOK
<1>5. CASE Perform(c) \/ \E id \in Charges : Issue(c, id)
  BY <1>5, PerformTypes DEF Perform, Issue, treasuryVars, stores, daemonVars, boundVars,
    TypeOK, TreasuryTypeOK, DaemonTypeOK
<1>6. CASE PerformFails(c)
  BY <1>6, PerformFailsTypes DEF PerformFails, Release, treasuryVars, stores,
    boundVars, TypeOK, TreasuryTypeOK, DaemonTypeOK
<1>7. CASE Record(c)
  BY <1>7, RecordTypes DEF Record, boundVars, TypeOK
<1>8. CASE Cancel(c)
  <2>1. RequestTypeOK'
    BY <1>8 DEF Cancel, Leave, TypeOK, RequestTypeOK, Steps
  <2>2. DaemonTypeOK' /\ cancels' \in 0..MaxCancels
    BY <1>8, GatewayAssumption DEF Cancel, Release, TypeOK, DaemonTypeOK
  <2> QED
    BY <1>8, <2>1, <2>2 DEF Cancel, treasuryVars, stores, worldVars,
      TypeOK, TreasuryTypeOK, WorldTypeOK
<1> QED
  BY <1>1, <1>2, <1>3, <1>4, <1>5, <1>6, <1>7, <1>8 DEF Move, Handler

LEMMA TypeStep ==
  ASSUME PlacesInv, [Next]_vars
  PROVE  TypeOK'
<1> USE DEF PlacesInv
<1>1. CASE \E c \in Clients : Move(c)
  BY <1>1, MoveTypes
<1>2. CASE \E burn \in Burns : Tick(burn)
  <2>1. PICK burn \in Burns : Tick(burn)
    BY <1>2
  <2>2. burn \in Nat
    BY GatewayAssumption
  <2>3. TreasuryTypeOK'
    BY <2>1, <2>2, MeteredTypes DEF Tick, debit_metered, TypeOK, TreasuryTypeOK
  <2>4. halted' \in BOOLEAN
    BY <2>1 DEF Tick
  <2> QED
    BY <2>1, <2>3, <2>4 DEF Tick, requestVars, worldVars, boundVars,
      TypeOK, RequestTypeOK, DaemonTypeOK, WorldTypeOK
<1>3. CASE LeaseVerdict
  BY <1>3 DEF LeaseVerdict, treasuryVars, stores, requestVars, worldVars, boundVars,
    TypeOK, TreasuryTypeOK, RequestTypeOK, DaemonTypeOK, WorldTypeOK
<1>4. CASE Crash
  <2>1. TreasuryTypeOK'
    BY <1>4, OpenTypes DEF Crash, TypeOK
  <2>2. SeededFloors \subseteq Nat
    BY GatewayAssumption DEF SeededFloors, RecordedWseqs, Request
  <2>3. RequestTypeOK'
    BY <1>4 DEF Crash, TypeOK, RequestTypeOK, Steps
  <2>4. DaemonTypeOK' /\ WorldTypeOK'
    BY <1>4, <2>2 DEF Crash, TypeOK, DaemonTypeOK, WorldTypeOK
  <2>5. boots' \in 0..MaxBoots /\ sent' \in Nat
    BY <1>4, GatewayAssumption DEF Crash, TypeOK
  <2> QED
    BY <1>4, <2>1, <2>3, <2>4, <2>5 DEF Crash, TypeOK
<1>5. CASE UNCHANGED vars
  BY <1>5 DEF vars, treasuryVars, stores, requestVars, daemonVars, worldVars, boundVars,
    TypeOK, TreasuryTypeOK, RequestTypeOK, DaemonTypeOK, WorldTypeOK
<1> QED
  BY <1>1, <1>2, <1>3, <1>4, <1>5, NextIsMove

-----------------------------------------------------------------------------
(* Where an act may be is kept by every step: Fork is the only way out of the  *)
(* gates, and ReservePublish the only way out of the reservation.              *)
LEMMA MoverPlaced ==
  ASSUME TypeOK, NEW c \in Clients, PlacedAt(c), Move(c)
  PROVE  PlacedAt(c)'
<1> USE DEF TypeOK, RequestTypeOK, PlacedAt, Goto, Leave, Answer
<1>1. CASE \E q \in Requests : Arrive(c, q)
  BY <1>1 DEF Arrive
<1>2. CASE Admit(c)
  BY <1>2 DEF Admit
<1>3. CASE Gate(c)
  BY <1>3 DEF Gate, Fork
<1>4. CASE ReservePublish(c) \/ LockEgress(c) \/ RegateEgress(c)
  BY <1>4 DEF ReservePublish, LockEgress, RegateEgress
<1>5. CASE Perform(c) \/ (\E id \in Charges : Issue(c, id)) \/ PerformFails(c)
  BY <1>5 DEF Perform, Issue, PerformFails
<1>6. CASE Record(c) \/ RecordPublish(c) \/ RecordCharge(c) \/ Cancel(c)
  BY <1>6 DEF Record, RecordPublish, RecordCharge, Cancel
<1> QED
  BY <1>1, <1>2, <1>3, <1>4, <1>5, <1>6 DEF Move, Handler

LEMMA DebitedIsPerformed ==
  ASSUME TreasuryTypeOK, NEW k \in Keys, NEW cost \in Nat,
         NEW hash \in Hashes \cup {NoHash},
         debit_and_record(k, cost, hash), DebitOutcome(k, cost) = "Debited"
  PROVE  /\ ~Performed(k) /\ Performed(k)'
         /\ ledger'[k] = [cost_sats |-> cost, after |-> balance - cost,
                          proof |-> NoCharge, request_hash |-> hash]
<1>1. cost \in Sats /\ balance - cost \in Sats /\ ~Performed(k)
  BY TreasuryAssumption DEF DebitOutcome, TreasuryTypeOK, Sats
<1>2. [cost_sats |-> cost, after |-> balance - cost, proof |-> NoCharge,
       request_hash |-> hash] \in PerformedRecord
  BY <1>1 DEF PerformedRecord
<1> QED
  BY <1>1, <1>2, NoRowAssumption DEF debit_and_record, Performed, TreasuryTypeOK

LEMMA MoverReserved ==
  ASSUME TypeOK, NEW c \in Clients, PlacedAt(c), ReservedAt(c), Move(c)
  PROVE  ReservedAt(c)'
<1> USE DEF TypeOK, RequestTypeOK, Goto, Leave, Answer
<1>1. CASE (\E q \in Requests : Arrive(c, q)) \/ LockEgress(c)
  BY <1>1 DEF Arrive, LockEgress, ReservedAt
<1>2. CASE Admit(c)
  BY <1>2 DEF Admit, ReservedAt
<1>3. CASE Gate(c)
  BY <1>3 DEF Gate, Fork, ReservedAt
<1>4. CASE ReservePublish(c)
  <2>1. RequestFacts(req[c])
    BY <1>4, RequestsTyped DEF ReservePublish
  <2>2. CASE DebitOutcome(req[c].key, req[c].estimate) = "Debited"
    <3>1. Performed(req[c].key)'
      BY <1>4, <2>1, <2>2, DebitedIsPerformed DEF ReservePublish, RequestFacts
    <3> QED
      BY <1>4, <2>2, <3>1 DEF ReservePublish, ReservedAt, Performed
  <2>3. CASE DebitOutcome(req[c].key, req[c].estimate) # "Debited"
    BY <1>4, <2>3 DEF ReservePublish, ReservedAt
  <2> QED
    BY <2>2, <2>3
<1>5. CASE RegateEgress(c)
  BY <1>5 DEF RegateEgress, PlacedAt, ReservedAt
<1>6. CASE Perform(c) \/ \E id \in Charges : Issue(c, id)
  BY <1>6 DEF Perform, Issue, treasuryVars, stores, ReservedAt, Performed
<1>7. CASE PerformFails(c) \/ Record(c) \/ RecordPublish(c) \/ RecordCharge(c) \/ Cancel(c)
  BY <1>7 DEF PerformFails, Record, RecordPublish, RecordCharge, Cancel, ReservedAt
<1> QED
  BY <1>1, <1>2, <1>3, <1>4, <1>5, <1>6, <1>7 DEF Move, Handler

LEMMA PlacesStep ==
  ASSUME PlacesInv, [Next]_vars
  PROVE  PlacesInv'
<1> USE DEF PlacesInv
<1>1. TypeOK'
  BY TypeStep
<1>2. ASSUME NEW d \in Clients
      PROVE  PlacedAt(d)' /\ ReservedAt(d)'
  <2>1. PlacedAt(d) /\ ReservedAt(d)
    OBVIOUS
  <2>2. pc[d] # "idle" => req[d].key \in Keys
    BY RequestsTyped DEF TypeOK, RequestTypeOK, RequestFacts
  <2>3. CASE Move(d)
    BY <2>1, <2>3, MoverPlaced, MoverReserved
  <2>4. CASE pc'[d] = pc[d] /\ req'[d] = req[d]
    BY <2>1, <2>2, <2>4, RowsKeptStep DEF PlacedAt, ReservedAt
  <2>5. CASE Crash
    BY <2>5 DEF Crash, PlacedAt, ReservedAt
  <2>6. (\E burn \in Burns : Tick(burn)) \/ LeaseVerdict \/ UNCHANGED vars
          => pc'[d] = pc[d] /\ req'[d] = req[d]
    BY DEF Tick, LeaseVerdict, vars, requestVars
  <2> QED
    BY <2>3, <2>4, <2>5, <2>6, NextIsMove, OthersStay
<1> QED
  BY <1>1, <1>2

LEMMA PlacesInvariantInit ==
  ASSUME Init
  PROVE  PlacesInv
<1>1. TreasuryTypeOK
  BY TreasuryAssumption DEF Init, TreasuryInit, TreasuryTypeOK, Sats
<1>2. RequestTypeOK
  BY DEF Init, RequestTypeOK, Steps
<1>3. DaemonTypeOK /\ WorldTypeOK
  BY DEF Init, DaemonTypeOK, WorldTypeOK
<1>4. \A c \in Clients : PlacedAt(c) /\ ReservedAt(c)
  BY DEF Init, PlacedAt, ReservedAt
<1> QED
  BY <1>1, <1>2, <1>3, <1>4, GatewayAssumption DEF Init, TypeOK, PlacesInv

LEMMA PlacesInvariant == Spec => []PlacesInv
BY PlacesInvariantInit, PlacesStep, PTL DEF Spec

(* Type correctness of the money path, whatever requests are sent: above all,  *)
(* no debit of any act takes the balance below zero, and every receipt is well *)
(* formed (authorize_capability and its forks).                                *)
THEOREM GatewayTypesSafe == Spec => []TypeOK
<1>1. PlacesInv => TypeOK
  BY DEF PlacesInv
<1> QED
  BY <1>1, PlacesInvariant, PTL

-----------------------------------------------------------------------------
(* What every step of the gateway is to the treasury: a handler's debit or     *)
(* charge, the meter's debit, or nothing.                                      *)
LEMMA GatewayTransacts == ASSUME TypeOK, [Next]_vars PROVE Transacts
<1>1. CASE \E c \in Clients : Move(c)
  <2>1. PICK c \in Clients : Move(c)
    BY <1>1
  <2>2. CASE ReservePublish(c)
    <3>1. debit_and_record(req[c].key, req[c].estimate, NoHash) /\ req[c] \in Requests
      BY <2>2 DEF ReservePublish, TypeOK, RequestTypeOK
    <3>2. req[c].key \in Keys /\ req[c].estimate \in Nat
      BY <3>1, RequestsTyped DEF RequestFacts
    <3> QED
      BY <3>1, <3>2 DEF Transacts
  <2>3. CASE Record(c)
    <3>1. PICK h \in Hashes \cup {NoHash} : debit_and_record(req[c].key, actual[c], h)
      <4>1. req[c] \in Requests
        BY <2>3 DEF Record, TypeOK, RequestTypeOK
      <4>2. req[c].request_hash \in Hashes \cup {NoHash}
        BY <4>1, RequestsTyped DEF RequestFacts
      <4> QED
        BY <2>3, <4>2 DEF Record
    <3>2. req[c].key \in Keys /\ actual[c] \in Nat
      BY <2>3, RequestsTyped DEF Record, TypeOK, RequestTypeOK, RequestFacts
    <3> QED
      BY <3>1, <3>2 DEF Transacts
  <2>4. CASE RecordCharge(c)
    <3>1. record_charge_atomic(req[c].key, quoted[c], "Lightning", req[c].request_hash)
      BY <2>4 DEF RecordCharge
    <3>2. /\ req[c].key \in Keys /\ quoted[c] \in Charges \cup {NoCharge} /\ "Lightning" \in Rails
          /\ req[c].request_hash \in Hashes \cup {NoHash}
      BY <2>4, RequestsTyped DEF RecordCharge, TypeOK, RequestTypeOK, RequestFacts, Rails
    <3> QED
      BY <3>1, <3>2 DEF Transacts
  <2>5. CASE ~ReservePublish(c) /\ ~Record(c) /\ ~RecordCharge(c)
    BY <2>1, <2>5, OnlyRecordsWrite DEF Transacts, treasuryVars
  <2> QED
    BY <2>2, <2>3, <2>4, <2>5
<1>2. CASE \E burn \in Burns : Tick(burn)
  <2>1. PICK burn \in Burns : metered_transaction(burn)
    BY <1>2 DEF Tick, debit_metered
  <2> QED
    BY <2>1, GatewayAssumption DEF Transacts
<1>3. CASE LeaseVerdict \/ Crash \/ UNCHANGED vars
  BY <1>3 DEF LeaseVerdict, Crash, Open, vars, treasuryVars, Transacts
<1> QED
  BY <1>1, <1>2, <1>3, NextIsMove

(* The gateway's concurrent handlers, the meter and the restarts keep the same *)
(* account: no interleaving of the money path spends twice for one key or      *)
(* loses a row (authorize_capability and its forks).                           *)
THEOREM GatewayKeepsTheAccount == Spec => KeepsTheAccount
<1>1. Init => Account!Init /\ RowsOfCredits
  BY AccountOpens DEF Init
<1>2. TypeOK /\ RowsOfCredits /\ [Next]_vars => [Account!Next]_Account!vars /\ RowsOfCredits'
  BY GatewayTransacts, TransactsKeepAccount DEF TypeOK
<1> QED
  BY <1>1, <1>2, GatewayTypesSafe, PTL DEF Spec, KeepsTheAccount, Account!Spec

(* The same for the money path: whatever the handlers race for, drop or lose   *)
(* in a crash, every sat that left the balance is in a row of the ledger or in *)
(* the rent (authorize_capability and its forks).                              *)
THEOREM GatewayBooksBalance ==
  ASSUME IsFiniteSet(Keys), IsFiniteSet(Charges)
  PROVE  Spec => []BooksBalance
<1>1. Init => BooksBalance
  BY BalanceOpens DEF Init
<1>2. TypeOK /\ TypeOK' /\ BooksBalance /\ [Next]_vars => BooksBalance'
  BY BalanceStep, GatewayTransacts DEF TypeOK
<1> QED
  BY <1>1, <1>2, GatewayTypesSafe, PTL DEF Spec

(* The same under the handlers of the gateway, which wait on the provider      *)
(* between a charge's id and its row (authorize_issue_charge).                 *)
THEOREM GatewayIndexIsExact == Spec => []IndexedIffRecorded
<1>1. Init => IndexedIffRecorded
  BY DEF Init, TreasuryInit, IndexedIffRecorded, Performed
<1>2. TypeOK /\ IndexedIffRecorded /\ [Next]_vars => IndexedIffRecorded'
  BY IndexedStep, GatewayTransacts DEF TypeOK
<1> QED
  BY <1>1, <1>2, GatewayTypesSafe, PTL DEF Spec

-----------------------------------------------------------------------------
(* Publish.  The strengthening says what makes the count of outward acts safe: *)
(* a handler on its way to publish holds a fresh reservation - nothing is out  *)
(* under its key yet - and it is the only one.                                 *)
AtPublish(c, k) == pc[c] = "perform" /\ req[c].key = k

PublishInv(k) ==
  /\ performed[k] <= 1
  /\ performed[k] > 0 => Performed(k)
  /\ \A c \in Clients : AtPublish(c, k) => performed[k] = 0
  /\ \A c, d \in Clients : AtPublish(c, k) /\ AtPublish(d, k) => c = d

(* A publish gets to the outward act only by winning the debit of its key.     *)
LEMMA EntersByReserving ==
  ASSUME TypeOK, NEW c \in Clients, PlacedAt(c), Move(c),
         pc'[c] = "perform", req'[c].act = "publish"
  PROVE  /\ ReservePublish(c) /\ req'[c] = req[c]
         /\ ~Performed(req[c].key) /\ performed' = performed
<1> USE DEF TypeOK, RequestTypeOK, Goto, Leave, Answer
<1>1. ~(\E q \in Requests : Arrive(c, q)) /\ ~LockEgress(c) /\ ~Cancel(c)
  BY DEF Arrive, LockEgress, Cancel
<1>2. ~Admit(c) /\ ~Gate(c) /\ ~RegateEgress(c)
  BY DEF Admit, Gate, Fork, RegateEgress, PlacedAt
<1>3. ~Perform(c) /\ ~(\E id \in Charges : Issue(c, id)) /\ ~PerformFails(c)
  BY DEF Perform, Issue, PerformFails
<1>4. ~Record(c) /\ ~RecordPublish(c) /\ ~RecordCharge(c)
  BY DEF Record, RecordPublish, RecordCharge
<1>5. ReservePublish(c)
  BY <1>1, <1>2, <1>3, <1>4 DEF Move, Handler
<1> QED
  BY <1>5 DEF ReservePublish, DebitOutcome, worldVars

(* The effect happens once, to the handler's own key, and ends its stay at the *)
(* outward act.                                                                *)
LEMMA EffectOfMove ==
  ASSUME TypeOK, NEW c \in Clients, Move(c), performed' # performed
  PROVE  /\ pc[c] = "perform" /\ pc'[c] # "perform"
         /\ performed' = [performed EXCEPT ![req[c].key] = @ + 1]
<1>1. Perform(c) \/ PerformFails(c)
  BY DEF Move, Handler, Arrive, Admit, Gate, ReservePublish, LockEgress, RegateEgress,
    Issue, Record, RecordPublish, RecordCharge, Cancel, worldVars
<1> QED
  BY <1>1 DEF Perform, PerformFails, Effect, Goto, Answer, Leave, TypeOK, RequestTypeOK

LEMMA PublishStep ==
  ASSUME PlacesInv, PlacesInv', [Next]_vars, NEW k \in KeysOf("publish"), PublishInv(k)
  PROVE  PublishInv(k)'
<1> USE DEF PlacesInv
<1>1. /\ k \in Keys
      /\ \A q \in Requests : q.key = k => q.act = "publish"
  BY DEF KeysOf
<1>2. performed[k] \in Nat /\ performed'[k] \in Nat
  BY <1>1 DEF TypeOK, WorldTypeOK
<1>3. \A c \in Clients : AtPublish(c, k) => Performed(k) /\ req[c].act = "publish"
  BY <1>1 DEF AtPublish, ReservedAt, TypeOK, RequestTypeOK
<1>4. \A c \in Clients : AtPublish(c, k)' => req'[c].act = "publish"
  BY <1>1 DEF AtPublish, TypeOK, RequestTypeOK
<1>5. Performed(k) => Performed(k)'
  BY <1>1, RowsKeptStep
<1>6. CASE \E c \in Clients : Move(c)
  <2>1. PICK c \in Clients : Move(c)
    BY <1>6
  <2>2. \A d \in Clients : d # c => (AtPublish(d, k)' <=> AtPublish(d, k))
    BY <2>1, OthersStay DEF AtPublish
  <2>3. CASE performed' # performed /\ req[c].key = k
    <3>1. AtPublish(c, k) /\ ~AtPublish(c, k)'
      BY <2>1, <2>3, EffectOfMove DEF AtPublish
    <3>2. performed[k] = 0 /\ performed'[k] = 1
      BY <1>1, <2>1, <2>3, <3>1, EffectOfMove DEF PublishInv, TypeOK, WorldTypeOK
    <3> QED
      BY <1>3, <1>5, <2>2, <3>1, <3>2 DEF PublishInv
  <2>4. CASE ~(performed' # performed /\ req[c].key = k)
    <3>1. performed'[k] = performed[k]
      BY <1>1, <2>1, <2>4, EffectOfMove DEF TypeOK, WorldTypeOK
    <3>2. CASE AtPublish(c, k)'
      <4>1. /\ ReservePublish(c) /\ req'[c] = req[c]
            /\ ~Performed(req[c].key)
        BY <1>4, <2>1, <3>2, EntersByReserving DEF AtPublish
      <4>2. ~Performed(k)
        BY <3>2, <4>1 DEF AtPublish
      <4>3. performed[k] = 0 /\ \A d \in Clients : ~AtPublish(d, k)
        BY <1>2, <1>3, <4>2 DEF PublishInv
      <4> QED
        BY <2>2, <3>1, <4>3 DEF PublishInv
    <3>3. CASE ~AtPublish(c, k)'
      BY <1>5, <2>2, <3>1, <3>3 DEF PublishInv
    <3> QED
      BY <3>2, <3>3
  <2> QED
    BY <2>3, <2>4
<1>7. CASE Crash
  BY <1>5, <1>7 DEF Crash, PublishInv, AtPublish
<1>8. CASE (\E burn \in Burns : Tick(burn)) \/ LeaseVerdict \/ UNCHANGED vars
  BY <1>5, <1>8 DEF Tick, LeaseVerdict, vars, requestVars, worldVars, PublishInv, AtPublish
<1> QED
  BY <1>6, <1>7, <1>8, NextIsMove

LEMMA PublishInvariant == Spec => [](\A k \in KeysOf("publish") : PublishInv(k))
<1> DEFINE Inv == \A k \in KeysOf("publish") : PublishInv(k)
<1>1. Init => Inv
  BY DEF Init, PublishInv, AtPublish, KeysOf
<1>2. PlacesInv /\ PlacesInv' /\ Inv /\ [Next]_vars => Inv'
  <2>1. ASSUME NEW k \in KeysOf("publish") PROVE k \in KeysOf("publish")'
    BY DEF KeysOf
  <2> QED
    BY PublishStep
<1> HIDE DEF Inv
<1>3. Spec => []Inv
  BY <1>1, <1>2, PlacesInvariant, PTL DEF Spec
<1> QED
  BY <1>3 DEF Inv

(* At most once: no race, retry, cancellation, failure or restart publishes    *)
(* twice under one key (authorize_actuate).                                    *)
THEOREM PublishAtMostOnce == Spec => []PublishedAtMostOnce
<1>1. (\A k \in KeysOf("publish") : PublishInv(k)) => PublishedAtMostOnce
  BY DEF PublishInv, PublishedAtMostOnce
<1> QED
  BY <1>1, PublishInvariant, PTL

(* Record then publish: whatever is out has its row (authorize_actuate).       *)
THEOREM PublishIsPaidFirst == Spec => []PublishPaidFirst
<1>1. (\A k \in KeysOf("publish") : PublishInv(k)) => PublishPaidFirst
  BY DEF PublishInv, PublishPaidFirst
<1> QED
  BY <1>1, PublishInvariant, PTL

-----------------------------------------------------------------------------
(* Receipts.  A handler answers with a denial, with a row it read, or with the *)
(* row its own transaction has just written; no row changes afterwards.        *)
Done == {"AuthorizedAndPerformed", "DuplicateIgnored"}
TellsOfRow(r) == r.outcome \in Done \/ r.proof \in Charges

AnsweredAt(c) ==
  reply[c] # NoReply /\ TellsOfRow(reply[c])
    => Performed(reply[c].key) /\ reply[c] = receipt(reply[c].key, reply[c].outcome)

LEMMA DeniedAnswer ==
  ASSUME TypeOK, NEW c \in Clients, NEW k, NEW outcome, outcome \notin Done,
         Answer(c, denied(k, outcome))
  PROVE  AnsweredAt(c)'
BY TreasuryAssumption DEF AnsweredAt, TellsOfRow, Answer, denied, Done, TypeOK, RequestTypeOK

LEMMA RowAnswer ==
  ASSUME TypeOK, [Next]_vars, NEW c \in Clients, NEW k \in Keys, Performed(k), NEW outcome,
         Answer(c, receipt(k, outcome))
  PROVE  AnsweredAt(c)'
<1>1. Performed(k)' /\ ledger'[k] = ledger[k]
  BY RowsKeptStep
<1>2. reply'[c] = receipt(k, outcome)
  BY DEF Answer, TypeOK, RequestTypeOK
<1> QED
  BY <1>1, <1>2 DEF AnsweredAt, receipt, Performed

LEMMA DebitAnswer ==
  ASSUME TypeOK, [Next]_vars, NEW c \in Clients, NEW k \in Keys, NEW cost \in Nat,
         NEW hash \in Hashes \cup {NoHash}, debit_and_record(k, cost, hash),
         Answer(c, DebitReceipt(k, cost, NoCharge))
  PROVE  AnsweredAt(c)'
<1>1. CASE DebitOutcome(k, cost) = "Debited"
  <2>1. /\ Performed(k)'
        /\ ledger'[k] = [cost_sats |-> cost, after |-> balance - cost,
                         proof |-> NoCharge, request_hash |-> hash]
    BY <1>1, DebitedIsPerformed DEF TypeOK
  <2>2. reply'[c] = [key |-> k, outcome |-> "AuthorizedAndPerformed", cost_sats |-> cost,
                     after |-> balance - cost, proof |-> NoCharge]
    BY <1>1 DEF Answer, DebitReceipt, TypeOK, RequestTypeOK
  <2> QED
    BY <2>1, <2>2 DEF AnsweredAt, receipt, Performed
<1>2. CASE DebitOutcome(k, cost) = "Duplicate"
  <2>1. Performed(k) /\ Answer(c, receipt(k, "DuplicateIgnored"))
    BY <1>2 DEF DebitOutcome, DebitReceipt
  <2> QED
    BY <2>1, RowAnswer
<1>3. CASE DebitOutcome(k, cost) \notin {"Debited", "Duplicate"}
  <2>1. Answer(c, denied(k, "DeniedInsufficientTreasury"))
    BY <1>3 DEF DebitReceipt
  <2> QED
    BY <2>1, DeniedAnswer DEF Done
<1> QED
  BY <1>1, <1>2, <1>3

LEMMA ChargeAnswer ==
  ASSUME TypeOK, [Next]_vars, NEW c \in Clients, NEW k \in Keys,
         NEW id \in Charges \cup {NoCharge}, NEW hash \in Hashes \cup {NoHash},
         record_charge_atomic(k, id, "Lightning", hash),
         Answer(c, DebitReceipt(k, 0, id))
  PROVE  AnsweredAt(c)'
<1>1. CASE Performed(k)
  <2>1. Answer(c, receipt(k, "DuplicateIgnored"))
    BY <1>1 DEF DebitOutcome, DebitReceipt
  <2> QED
    BY <1>1, <2>1, RowAnswer
<1>2. CASE ~Performed(k)
  <2>1. balance \in Nat /\ DebitOutcome(k, 0) = "Debited"
    BY <1>2, TreasuryAssumption DEF DebitOutcome, TypeOK, TreasuryTypeOK, Sats
  <2>2. [cost_sats |-> 0, after |-> balance, proof |-> id, request_hash |-> hash]
          \in PerformedRecord
    BY TreasuryAssumption DEF TypeOK, TreasuryTypeOK, Sats, PerformedRecord
  <2>3. /\ Performed(k)'
        /\ ledger'[k] = [cost_sats |-> 0, after |-> balance, proof |-> id,
                         request_hash |-> hash]
    BY <1>2, <2>2, NoRowAssumption DEF record_charge_atomic, Performed, TypeOK, TreasuryTypeOK
  <2>4. reply'[c] = [key |-> k, outcome |-> "AuthorizedAndPerformed", cost_sats |-> 0,
                     after |-> balance - 0, proof |-> id]
    BY <2>1 DEF Answer, DebitReceipt, TypeOK, RequestTypeOK
  <2>5. balance - 0 = balance
    BY <2>1
  <2> QED
    BY <2>3, <2>4, <2>5 DEF AnsweredAt, receipt, Performed
<1> QED
  BY <1>1, <1>2

LEMMA KeptAnswer ==
  ASSUME TypeOK, [Next]_vars, NEW c \in Clients, AnsweredAt(c), reply'[c] = reply[c]
  PROVE  AnsweredAt(c)'
<1>1. CASE reply[c] # NoReply /\ TellsOfRow(reply[c])
  <2>1. reply[c].key \in Keys
    BY <1>1 DEF TypeOK, RequestTypeOK, Receipt
  <2>2. Performed(reply[c].key) /\ reply[c] = receipt(reply[c].key, reply[c].outcome)
    BY <1>1 DEF AnsweredAt
  <2>3. ledger'[reply[c].key] = ledger[reply[c].key]
    BY <2>1, <2>2, RowsKeptStep
  <2> QED
    BY <2>2, <2>3 DEF AnsweredAt, TellsOfRow, receipt, Performed
<1>2. CASE ~(reply[c] # NoReply /\ TellsOfRow(reply[c]))
  BY <1>2 DEF AnsweredAt, TellsOfRow
<1> QED
  BY <1>1, <1>2

LEMMA MoverAnswered ==
  ASSUME PlacesInv, Next, NEW c \in Clients, AnsweredAt(c), Move(c)
  PROVE  AnsweredAt(c)'
<1> DEFINE q == req[c]
<1> USE DEF PlacesInv
<1>1. pc[c] # "idle" => q \in Requests /\ RequestFacts(q)
  BY RequestsTyped DEF TypeOK, RequestTypeOK
<1>2. CASE reply' = reply
  BY <1>2, KeptAnswer
<1>3. CASE Admit(c) /\ reply' # reply
  <2>1. Answer(c, AdmitReply(q))
    BY <1>3 DEF Admit, Goto
  <2>2. CASE active /\ Performed(q.key) /\ ~(q.act = "memory" /\ HashDiverges(q, ledger[q.key]))
    <3>1. Answer(c, receipt(q.key, "DuplicateIgnored"))
      BY <2>1, <2>2 DEF AdmitReply
    <3> QED
      BY <1>1, <1>3, <2>2, <3>1, RowAnswer DEF Admit, RequestFacts
  <2>3. CASE ~(active /\ Performed(q.key) /\ ~(q.act = "memory" /\ HashDiverges(q, ledger[q.key])))
    <3>1. PICK outcome \in {"DeniedNotActiveLease", "Unspecified", "DeniedNotAllowlisted"} :
            Answer(c, denied(q.key, outcome))
      BY <2>1, <2>3 DEF AdmitReply
    <3> QED
      BY <3>1, DeniedAnswer DEF Done
  <2> QED
    BY <2>2, <2>3
<1>4. CASE Gate(c) /\ reply' # reply
  <2>1. Answer(c, denied(q.key, GateOutcome(q)))
    BY <1>4 DEF Gate, Goto
  <2>2. GateOutcome(q) \notin Done
    BY DEF GateOutcome, Done
  <2> QED
    BY <2>1, <2>2, DeniedAnswer
<1>5. CASE ReservePublish(c) /\ reply' # reply
  <2>1. Answer(c, DebitReceipt(q.key, q.estimate, NoCharge))
    BY <1>5 DEF ReservePublish, Goto
  <2> QED
    BY <1>1, <1>5, <2>1, DebitAnswer DEF ReservePublish, RequestFacts
<1>6. CASE RegateEgress(c) /\ reply' # reply
  <2>1. Answer(c, denied(q.key, "DeniedInsufficientTreasury"))
    BY <1>6 DEF RegateEgress, Goto
  <2> QED
    BY <2>1, DeniedAnswer DEF Done
<1>7. CASE PerformFails(c)
  <2>1. CASE q.act = "publish"
    BY <1>1, <1>7, <2>1, RowAnswer DEF PerformFails, ReservedAt, RequestFacts
  <2>2. CASE q.act # "publish"
    BY <1>7, <2>2, DeniedAnswer DEF PerformFails, Done
  <2> QED
    BY <2>1, <2>2
<1>8. CASE Record(c)
  <2>1. actual[c] \in Nat
    BY DEF TypeOK, RequestTypeOK
  <2> QED
    BY <1>1, <1>8, <2>1, DebitAnswer DEF Record, RequestFacts
<1>9. CASE RecordPublish(c)
  BY <1>1, <1>9, RowAnswer DEF RecordPublish, ReservedAt, RequestFacts
<1>10. CASE RecordCharge(c)
  <2>1. quoted[c] \in Charges \cup {NoCharge}
    BY DEF TypeOK, RequestTypeOK
  <2> QED
    BY <1>1, <1>10, <2>1, ChargeAnswer DEF RecordCharge, RequestFacts
<1>11. CASE (\E p \in Requests : Arrive(c, p)) \/ LockEgress(c) \/ Perform(c)
            \/ (\E id \in Charges : Issue(c, id)) \/ Cancel(c)
  <2>1. reply' = reply
    BY <1>11 DEF Arrive, LockEgress, Perform, Issue, Cancel, Goto
  <2> QED
    BY <2>1, <1>2
<1> QED
  BY <1>2, <1>3, <1>4, <1>5, <1>6, <1>7, <1>8, <1>9, <1>10, <1>11 DEF Move, Handler

AnswersInv == PlacesInv /\ \A c \in Clients : AnsweredAt(c)

LEMMA AnswersStep ==
  ASSUME AnswersInv, [Next]_vars
  PROVE  AnswersInv'
<1> USE DEF AnswersInv
<1>1. PlacesInv'
  BY PlacesStep
<1>2. ASSUME NEW d \in Clients
      PROVE  AnsweredAt(d)'
  <2>1. CASE Next /\ Move(d)
    BY <2>1, MoverAnswered
  <2>2. CASE reply'[d] = reply[d]
    BY <2>2, KeptAnswer DEF PlacesInv
  <2>3. (\E burn \in Burns : Tick(burn)) \/ LeaseVerdict \/ Crash \/ UNCHANGED vars
          => reply'[d] = reply[d]
    BY DEF Tick, LeaseVerdict, Crash, vars, requestVars
  <2> QED
    BY <2>1, <2>2, <2>3, NextIsMove, OthersStay DEF PlacesInv
<1> QED
  BY <1>1, <1>2

(* Every receipt that says an act was done agrees with the one row of its key, *)
(* whoever raced for it and whatever was replayed (debit_and_record's          *)
(* duplicate, step 1 of authorize_capability).                                 *)
THEOREM AnswersAgreeWithLedger == Spec => []AnswersAgree
<1>1. Init => AnswersInv
  BY PlacesInvariantInit DEF Init, AnswersInv, AnsweredAt
<1>2. AnswersInv => AnswersAgree
  BY DEF AnswersInv, AnswersAgree, AnsweredAt, TellsOfRow, Done
<1> QED
  BY <1>1, <1>2, AnswersStep, PTL DEF Spec

(* The poller knows of every charge a client was told of: the receipt names    *)
(* the id of a row, and every row's charge is in the index                     *)
(* (record_charge_atomic).                                                     *)
THEOREM ToldChargeIsPolled == Spec => []AnsweredChargeIsPolled
<1>1. Init => AnswersInv
  BY PlacesInvariantInit DEF Init, AnswersInv, AnsweredAt
<1>2. AnswersInv /\ IndexedIffRecorded => AnsweredChargeIsPolled
  <2> SUFFICES ASSUME AnswersInv, IndexedIffRecorded, NEW c \in Clients,
                      reply[c] # NoReply, reply[c].proof \in Charges
               PROVE  issued_charges[reply[c].proof] # NoRow
    BY DEF AnsweredChargeIsPolled
  <2>1. reply[c].key \in Keys
    BY DEF AnswersInv, PlacesInv, TypeOK, RequestTypeOK, Receipt
  <2>2. Performed(reply[c].key) /\ reply[c] = receipt(reply[c].key, reply[c].outcome)
    BY DEF AnswersInv, AnsweredAt, TellsOfRow
  <2>3. receipt(reply[c].key, reply[c].outcome).proof = ledger[reply[c].key].proof
    BY DEF receipt
  <2>4. reply[c].proof = ledger[reply[c].key].proof
    BY <2>2, <2>3
  <2> QED
    BY <2>1, <2>2, <2>4 DEF IndexedIffRecorded
<1> QED
  BY <1>1, <1>2, AnswersStep, GatewayIndexIsExact, PTL DEF Spec

-----------------------------------------------------------------------------
(* Authority.  A handler past the gates carries their verdict with it: the     *)
(* request does not change while it waits, and what it will debit is at most   *)
(* the estimate the gates compared.                                            *)
GatedAt(c) ==
  /\ pc[c] \in Steps \ {"idle", "admit"} => req[c].allowed
  /\ pc[c] \in Steps \ {"idle", "admit", "gate"} /\ req[c].act # "charge"
       => req[c].valid /\ ~OverBudget(req[c])
  /\ pc[c] = "record" /\ req[c].act = "charge" => req[c].valid
  /\ pc[c] = "record" /\ req[c].act \in {"generic", "memory", "fetch"}
       => actual[c] <= Estimate(req[c])

LEMMA MoverGated ==
  ASSUME TypeOK, NEW c \in Clients, GatedAt(c), Move(c)
  PROVE  GatedAt(c)'
<1> DEFINE q == req[c]
<1> USE DEF TypeOK, RequestTypeOK, Goto, Leave, Answer
<1>1. pc[c] # "idle" => q \in Requests /\ RequestFacts(q)
  BY RequestsTyped
<1>2. CASE (\E p \in Requests : Arrive(c, p)) \/ Admit(c)
  BY <1>2 DEF Arrive, Admit, GatedAt
<1>3. CASE Gate(c)
  <2>1. CASE GateOutcome(q) = "Passed"
    <3>1. q.valid /\ ~OverBudget(q) /\ pc'[c] # "record" /\ req'[c] = q
      BY <1>3, <2>1 DEF Gate, GateOutcome, Fork
    <3> QED
      BY <1>3, <3>1 DEF Gate, GatedAt, OverBudget, Estimate, Steps
  <2>2. CASE GateOutcome(q) # "Passed"
    BY <1>3, <2>2 DEF Gate, GatedAt
  <2> QED
    BY <2>1, <2>2
<1>4. CASE ReservePublish(c) \/ LockEgress(c) \/ RegateEgress(c)
  BY <1>4 DEF ReservePublish, LockEgress, RegateEgress, GatedAt, OverBudget, Estimate, Steps
<1>5. CASE Perform(c)
  <2>1. pc'[c] = "record" /\ req'[c] = q /\ q.act # "charge"
    BY <1>5 DEF Perform
  <2>2. q.act \in {"generic", "memory", "fetch"} => actual'[c] <= Estimate(q)
    BY <1>1, <1>5 DEF Perform, SpendOf, Estimate, RequestFacts
  <2> QED
    BY <1>5, <2>1, <2>2 DEF Perform, GatedAt, OverBudget, Estimate, Steps
<1>6. CASE \E id \in Charges : Issue(c, id)
  BY <1>6 DEF Issue, GatedAt, Steps
<1>7. CASE PerformFails(c) \/ Record(c) \/ RecordPublish(c) \/ RecordCharge(c) \/ Cancel(c)
  BY <1>7 DEF PerformFails, Record, RecordPublish, RecordCharge, Cancel, GatedAt
<1> QED
  BY <1>2, <1>3, <1>4, <1>5, <1>6, <1>7 DEF Move, Handler

GatedInv == PlacesInv /\ \A c \in Clients : GatedAt(c)

LEMMA GatedStep ==
  ASSUME GatedInv, [Next]_vars
  PROVE  GatedInv'
<1> USE DEF GatedInv
<1>1. PlacesInv'
  BY PlacesStep
<1>2. ASSUME NEW d \in Clients
      PROVE  GatedAt(d)'
  <2>1. CASE Move(d)
    BY <2>1, MoverGated DEF PlacesInv
  <2>2. CASE pc'[d] = pc[d] /\ req'[d] = req[d] /\ actual'[d] = actual[d]
    BY <2>2 DEF GatedAt, OverBudget, Estimate
  <2>3. CASE Crash
    BY <2>3 DEF Crash, GatedAt
  <2>4. (\E burn \in Burns : Tick(burn)) \/ LeaseVerdict \/ UNCHANGED vars
          => pc'[d] = pc[d] /\ req'[d] = req[d] /\ actual'[d] = actual[d]
    BY DEF Tick, LeaseVerdict, vars, requestVars
  <2> QED
    BY <2>1, <2>2, <2>3, <2>4, NextIsMove, OthersStay DEF PlacesInv
<1> QED
  BY <1>1, <1>2

Authorizes(c, k) ==
  /\ req[c] # NoRequest /\ req[c].key = k
  /\ req[c].allowed /\ req[c].valid
  /\ ledger'[k].cost_sats <= req[c].budget_sats
  /\ ledger'[k].cost_sats <= req[c].ceiling

LEMMA WithinEstimate ==
  ASSUME NEW q \in Requests, ~OverBudget(q), NEW cost \in Nat, cost <= Estimate(q)
  PROVE  cost <= q.budget_sats /\ cost <= q.ceiling
BY RequestsTyped DEF OverBudget, Estimate, RequestFacts

LEMMA NewRow ==
  ASSUME TypeOK, NEW j \in Keys, NEW cost \in Nat, NEW hash \in Hashes \cup {NoHash},
         debit_and_record(j, cost, hash), NEW k \in Keys, ~Performed(k), Performed(k)'
  PROVE  k = j /\ ledger'[k].cost_sats = cost
BY DebitedIsPerformed DEF debit_and_record, Performed, TypeOK, TreasuryTypeOK

LEMMA AuthorityStep ==
  ASSUME GatedInv, [Next]_vars, NEW k \in Keys, ~Performed(k), Performed(k)'
  PROVE  \E c \in Clients : Authorizes(c, k)
<1> USE DEF GatedInv, PlacesInv
<1>1. PICK c \in Clients : Move(c) /\ (ReservePublish(c) \/ Record(c) \/ RecordCharge(c))
  <2>1. ledger' # ledger
    BY DEF Performed
  <2>2. ~(\E burn \in Burns : Tick(burn)) /\ ~LeaseVerdict /\ ~Crash /\ ~UNCHANGED vars
    BY <2>1 DEF Tick, debit_metered, metered_transaction, LeaseVerdict, Crash, Open, vars,
      treasuryVars, stores
  <2> QED
    BY <2>1, <2>2, NextIsMove, OnlyRecordsWrite DEF treasuryVars, stores
<1> DEFINE q == req[c]
<1>2. /\ q \in Requests /\ RequestFacts(q) /\ q # NoRequest /\ actual[c] \in Nat
      /\ q.allowed
  BY <1>1, RequestsTyped, GatewayAssumption
  DEF ReservePublish, Record, RecordCharge, TypeOK, RequestTypeOK, GatedAt, Steps
<1>3. CASE ReservePublish(c)
  <2>1. q.act = "publish" /\ q.valid /\ ~OverBudget(q)
    BY <1>3 DEF ReservePublish, PlacedAt, GatedAt, Steps
  <2>2. q.key = k /\ ledger'[k].cost_sats = q.estimate
    BY <1>2, <1>3, NewRow DEF ReservePublish, RequestFacts
  <2>3. q.estimate <= Estimate(q) /\ q.estimate \in Nat
    BY <1>2, <2>1 DEF Estimate, RequestFacts
  <2> QED
    BY <1>2, <2>1, <2>2, <2>3, WithinEstimate DEF Authorizes
<1>4. CASE Record(c)
  <2>1. q.valid /\ ~OverBudget(q) /\ actual[c] <= Estimate(q)
    BY <1>4 DEF Record, GatedAt, Steps
  <2>2. q.key = k /\ ledger'[k].cost_sats = actual[c]
    BY <1>2, <1>4, NewRow DEF Record, RequestFacts
  <2> QED
    BY <1>2, <2>1, <2>2, WithinEstimate DEF Authorizes
<1>5. CASE RecordCharge(c)
  <2>1. q.valid
    BY <1>5 DEF RecordCharge, GatedAt
  <2>2. q.key = k /\ ledger'[k].cost_sats = 0
    BY <1>2, <1>5 DEF RecordCharge, record_charge_atomic, Performed, RequestFacts, TypeOK,
      TreasuryTypeOK
  <2> QED
    BY <1>2, <2>1, <2>2 DEF Authorizes, RequestFacts
<1> QED
  BY <1>1, <1>3, <1>4, <1>5

(* No row is ever added beyond the authority of the request it is for: within  *)
(* its budget and its ceiling, to an allowed destination, however long the act *)
(* took and whatever else was debited meanwhile (the gates of                  *)
(* authorize_capability and its forks).                                        *)
THEOREM DebitsWithinAuthority == Spec => WithinAuthority
<1>1. Init => GatedInv
  BY PlacesInvariantInit DEF Init, GatedInv, GatedAt
<1>2. GatedInv /\ [Next]_vars
        => [\A k \in Keys : ~Performed(k) /\ Performed(k)' =>
              \E c \in Clients :
                /\ req[c] # NoRequest /\ req[c].key = k
                /\ req[c].allowed /\ req[c].valid
                /\ ledger'[k].cost_sats <= req[c].budget_sats
                /\ ledger'[k].cost_sats <= req[c].ceiling]_vars
  BY AuthorityStep DEF Authorizes
<1> QED
  BY <1>1, <1>2, GatedStep, PTL DEF Spec, WithinAuthority

-----------------------------------------------------------------------------
(* The gate of the fetches.  Its holder is exactly the fetch between its       *)
(* balance read and its debit: exactly, for a fetch that passed the gate       *)
(* without holding it could not be told from one that holds it.                *)
HoldsGate(c) == pc[c] \in {"regate", "perform", "record"} /\ req[c].act = "fetch"

GateExact(c) == egress_owner = c <=> HoldsGate(c)

GateInv == PlacesInv /\ \A c \in Clients : GateExact(c)

LEMMA MoverOfGate ==
  ASSUME TypeOK, NEW c \in Clients, PlacedAt(c), GateExact(c), Move(c)
  PROVE  /\ GateExact(c)'
         /\ egress_owner' \in {egress_owner, c, NoClient}
         /\ egress_owner # c => egress_owner' \in {egress_owner, c}
         /\ egress_owner' = c /\ egress_owner # c => egress_owner = NoClient
<1> USE GatewayAssumption
    DEF TypeOK, RequestTypeOK, DaemonTypeOK, GateExact, HoldsGate, Goto, Leave, Answer
<1>1. CASE (\E q \in Requests : Arrive(c, q)) \/ Admit(c)
  BY <1>1 DEF Arrive, Admit, daemonVars
<1>2. CASE Gate(c)
  BY <1>2 DEF Gate, Fork, daemonVars
<1>3. CASE ReservePublish(c)
  BY <1>3 DEF ReservePublish, PlacedAt, daemonVars
<1>4. CASE LockEgress(c) \/ RegateEgress(c)
  BY <1>4 DEF LockEgress, RegateEgress, Release, PlacedAt
<1>5. CASE Perform(c) \/ (\E id \in Charges : Issue(c, id)) \/ PerformFails(c)
  BY <1>5 DEF Perform, Issue, PerformFails, Release, daemonVars
<1>6. CASE Record(c) \/ RecordPublish(c) \/ RecordCharge(c) \/ Cancel(c)
  BY <1>6 DEF Record, RecordPublish, RecordCharge, Cancel, Release, daemonVars
<1> QED
  BY <1>1, <1>2, <1>3, <1>4, <1>5, <1>6 DEF Move, Handler

LEMMA GateStep ==
  ASSUME GateInv, [Next]_vars
  PROVE  GateInv'
<1> USE DEF GateInv
<1>1. PlacesInv'
  BY PlacesStep
<1>2. ASSUME NEW c \in Clients, Move(c), NEW d \in Clients
      PROVE  GateExact(d)'
  <2>1. CASE d = c
    BY <1>2, <2>1, MoverOfGate DEF PlacesInv
  <2>2. CASE d # c
    <3>1. egress_owner' = d <=> egress_owner = d
      BY <1>2, <2>2, MoverOfGate, GatewayAssumption DEF PlacesInv
    <3> QED
      BY <1>2, <2>2, <3>1, OthersStay DEF PlacesInv, GateExact, HoldsGate
  <2> QED
    BY <2>1, <2>2
<1>3. ASSUME Crash, NEW d \in Clients
      PROVE  GateExact(d)'
  BY <1>3, GatewayAssumption DEF Crash, GateExact, HoldsGate
<1>4. ASSUME (\E burn \in Burns : Tick(burn)) \/ LeaseVerdict \/ UNCHANGED vars,
             NEW d \in Clients
      PROVE  GateExact(d)'
  BY <1>4 DEF Tick, LeaseVerdict, vars, requestVars, daemonVars, GateExact, HoldsGate
<1> QED
  BY <1>1, <1>2, <1>3, <1>4, NextIsMove

LEMMA GateInvariant == Spec => []GateInv
<1>1. Init => GateInv
  BY PlacesInvariantInit, GatewayAssumption DEF Init, GateInv, GateExact, HoldsGate
<1> QED
  BY <1>1, GateStep, PTL DEF Spec

(* egress_debit_gate is never left locked by a fetch that was denied, failed,  *)
(* was cancelled or died with the daemon (the guard of authorize_actuate).     *)
THEOREM GateIsHeldInside == Spec => []GateHeldInside
<1>1. GateInv => GateHeldInside
  BY DEF GateInv, GateExact, HoldsGate, PlacesInv, TypeOK, DaemonTypeOK, GateHeldInside
<1> QED
  BY <1>1, GateInvariant, PTL

(* The critical section of the fetches: two of them are never between the      *)
(* balance read and the debit at once (the guard of authorize_actuate).        *)
THEOREM OneFetchInside ==
  Spec => [](\A c, d \in Clients : HoldsGate(c) /\ HoldsGate(d) => c = d)
<1>1. GateInv => \A c, d \in Clients : HoldsGate(c) /\ HoldsGate(d) => c = d
  BY DEF GateInv, GateExact
<1> QED
  BY <1>1, GateInvariant, PTL

-----------------------------------------------------------------------------
(* Replays.  A genome that does not ask for a key again before it has its      *)
(* answer, or has given it up, finds whatever is on the ledger inert: past     *)
(* step 1 its key has no row until its own handler writes it.                  *)
NoKeyTwice ==
  \A c, d \in Clients :
    pc[c] # "idle" /\ pc[d] # "idle" /\ req[c].key = req[d].key => c = d

Unpublished == {k \in Keys : \A q \in Requests : q.key = k => q.act # "publish"}

Ahead(c, k) == pc[c] \in {"gate", "lock", "regate", "perform"} /\ req[c].key = k

AheadInv == PlacesInv /\ \A c \in Clients, k \in Unpublished : Ahead(c, k) => ~Performed(k)

(* A row is written by a handler of its key, as its last step unless it is the *)
(* reservation of a publish.                                                   *)
LEMMA RowIsHandlers ==
  ASSUME TypeOK, [Next]_vars, NEW k \in Keys, ~Performed(k), Performed(k)'
  PROVE  \E c \in Clients :
           /\ ReservePublish(c) \/ Record(c) \/ RecordCharge(c)
           /\ req[c] \in Requests /\ req[c].key = k
           /\ Record(c) => DebitOutcome(k, actual[c]) = "Debited"
<1>1. PICK c \in Clients : ReservePublish(c) \/ Record(c) \/ RecordCharge(c)
  <2>1. ledger' # ledger
    BY DEF Performed
  <2>2. ~(\E burn \in Burns : Tick(burn)) /\ ~LeaseVerdict /\ ~Crash /\ ~UNCHANGED vars
    BY <2>1 DEF Tick, debit_metered, metered_transaction, LeaseVerdict, Crash, Open, vars,
      treasuryVars, stores
  <2> QED
    BY <2>1, <2>2, NextIsMove, OnlyRecordsWrite DEF treasuryVars, stores
<1> DEFINE q == req[c]
<1>2. q \in Requests /\ RequestFacts(q) /\ actual[c] \in Nat
  BY <1>1, RequestsTyped DEF ReservePublish, Record, RecordCharge, TypeOK, RequestTypeOK
<1>3. CASE ReservePublish(c)
  BY <1>2, <1>3, NewRow DEF ReservePublish, Record, RequestFacts
<1>4. CASE Record(c)
  <2>1. q.key = k
    BY <1>2, <1>4, NewRow DEF Record, RequestFacts
  <2>2. DebitOutcome(k, actual[c]) = "Debited"
    BY <1>4, <2>1 DEF Record, debit_and_record, Performed
  <2> QED
    BY <1>2, <1>4, <2>1, <2>2
<1>5. CASE RecordCharge(c)
  <2>1. q.key = k
    BY <1>2, <1>5 DEF RecordCharge, record_charge_atomic, Performed, TypeOK, TreasuryTypeOK,
      RequestFacts
  <2> QED
    BY <1>2, <1>5, <2>1 DEF Record, RecordCharge
<1> QED
  BY <1>1, <1>3, <1>4, <1>5

LEMMA AheadStep == ASSUME AheadInv, NoKeyTwice, [Next]_vars PROVE AheadInv'
<1>1. PlacesInv' /\ TypeOK
  BY PlacesStep DEF AheadInv, PlacesInv
<1> SUFFICES ASSUME NEW c \in Clients, NEW k \in Unpublished, Ahead(c, k)'
             PROVE  ~Performed(k)'
  BY <1>1 DEF AheadInv, Unpublished
<1>2. k \in Keys
  BY DEF Unpublished
<1>3. ~Performed(k) /\ req'[c] = req[c] /\ pc[c] # "idle" /\ (~Move(c) => pc'[c] = pc[c])
  <2>1. CASE Move(c)
    <3> USE DEF Move, Handler, TypeOK, RequestTypeOK, Goto, Leave, Answer
    <3>1. (Admit(c) /\ ~Performed(req[c].key)) \/ Ahead(c, k)
      <4>1. ~(\E q \in Requests : Arrive(c, q)) /\ ~Cancel(c)
        BY <1>1 DEF Arrive, Cancel, Ahead
      <4>2. ~Perform(c) /\ ~(\E id \in Charges : Issue(c, id)) /\ ~PerformFails(c)
        BY <1>1 DEF Perform, Issue, PerformFails, Ahead
      <4>3. ~Record(c) /\ ~RecordPublish(c) /\ ~RecordCharge(c)
        BY <1>1 DEF Record, RecordPublish, RecordCharge, Ahead
      <4>4. ~ReservePublish(c)
        BY <1>1 DEF ReservePublish, AheadInv, PlacesInv, PlacedAt, Ahead, Unpublished
      <4>5. Admit(c) => ~Performed(req[c].key)
        BY <1>1 DEF Admit, Ahead
      <4>6. Gate(c) \/ LockEgress(c) \/ RegateEgress(c) => Ahead(c, k)
        BY <1>1 DEF Gate, LockEgress, RegateEgress, Ahead
      <4> QED
        BY <2>1, <4>1, <4>2, <4>3, <4>4, <4>5, <4>6
    <3>2. req'[c] = req[c] /\ pc[c] # "idle"
      <4>1. Admit(c) => req'[c] = req[c] /\ pc[c] # "idle"
        BY <1>1 DEF Admit, Ahead
      <4>2. Ahead(c, k) => req'[c] = req[c] /\ pc[c] # "idle"
        BY <1>1, <2>1 DEF Ahead, Arrive, Admit, Gate, ReservePublish, LockEgress,
          RegateEgress, Perform, Issue, PerformFails, Record, RecordPublish, RecordCharge,
          Cancel
      <4> QED
        BY <3>1, <4>1, <4>2
    <3>3. req[c].key = k
      BY <3>2 DEF Ahead
    <3> QED
      BY <2>1, <3>1, <3>2, <3>3 DEF AheadInv
  <2>2. CASE ~Move(c)
    <3>1. pc'[c] = pc[c] /\ req'[c] = req[c]
      <4>1. ~Crash
        BY DEF Crash, Ahead
      <4>2. CASE (\E burn \in Burns : Tick(burn)) \/ LeaseVerdict \/ UNCHANGED vars
        BY <4>2 DEF Tick, LeaseVerdict, vars, requestVars
      <4>3. CASE \E d \in Clients : Move(d)
        BY <1>1, <2>2, <4>3, OthersStay
      <4> QED
        BY <4>1, <4>2, <4>3, NextIsMove
    <3> QED
      BY <2>2, <3>1 DEF AheadInv, Ahead
  <2> QED
    BY <2>1, <2>2
<1>4. ASSUME Performed(k)' PROVE FALSE
  <2>1. PICK d \in Clients :
          /\ ReservePublish(d) \/ Record(d) \/ RecordCharge(d)
          /\ req[d] \in Requests /\ req[d].key = k
    BY <1>1, <1>2, <1>3, <1>4, RowIsHandlers
  <2>2. ~ReservePublish(d)
    BY <2>1 DEF ReservePublish, AheadInv, PlacesInv, PlacedAt, Unpublished
  <2>3. pc[d] # "idle" /\ pc'[d] = "idle"
    BY <1>1, <2>1, <2>2 DEF Record, RecordCharge, Answer, Leave, TypeOK, RequestTypeOK
  <2>4. req[c].key = k
    BY <1>3 DEF Ahead
  <2>5. c = d
    BY <1>3, <2>1, <2>3, <2>4 DEF NoKeyTwice
  <2> QED
    BY <2>3, <2>5 DEF Ahead
<1> QED
  BY <1>4

(* Resume-replay safety: for a genome that has one handler of a key at a time, *)
(* nothing is performed under a key that is on the ledger, whatever was        *)
(* dropped, resent, or replayed from a checkpoint after restarts (step 1 of    *)
(* authorize_capability).  A publish performs under its own reservation.       *)
THEOREM ReplayIsInert ==
  Spec /\ []NoKeyTwice =>
    [][\A k \in Unpublished : Performed(k) => performed'[k] = performed[k]]_vars
<1> DEFINE Inert == \A k \in Unpublished : Performed(k) => performed'[k] = performed[k]
<1>1. Init => AheadInv
  BY PlacesInvariantInit DEF Init, AheadInv, Ahead
<1>2. AheadInv /\ [Next]_vars => [Inert]_vars
  <2> SUFFICES ASSUME AheadInv, [Next]_vars, NEW k \in Unpublished, Performed(k)
               PROVE  performed'[k] = performed[k]
    OBVIOUS
  <2>1. TypeOK /\ k \in Keys
    BY DEF AheadInv, PlacesInv, Unpublished
  <2>2. CASE \E c \in Clients : Move(c)
    <3>1. PICK c \in Clients : Move(c)
      BY <2>2
    <3>2. performed' # performed => ~Ahead(c, k)
      BY DEF AheadInv
    <3> QED
      BY <2>1, <3>1, <3>2, EffectOfMove DEF Ahead, TypeOK, WorldTypeOK
  <2>3. CASE (\E burn \in Burns : Tick(burn)) \/ LeaseVerdict \/ Crash \/ UNCHANGED vars
    BY <2>3 DEF Tick, LeaseVerdict, Crash, vars, worldVars
  <2> QED
    BY <2>2, <2>3, NextIsMove
<1>3. AheadInv /\ NoKeyTwice /\ [Next]_vars => AheadInv'
  BY AheadStep
<1> QED
  BY <1>1, <1>2, <1>3, PTL DEF Spec

-----------------------------------------------------------------------------
(* Charges.  An id in a handler's hands is its own: the provider has handed it *)
(* out, to nobody else, and no row carries it yet.                             *)
Carries(k, id) == Performed(k) /\ ledger[k].proof = id

QuotedInv ==
  /\ \A c \in Clients : quoted[c] \in Charges =>
       /\ quoted[c] \in quotes
       /\ \A k \in Keys : ~Carries(k, quoted[c])
       /\ \A d \in Clients : quoted[d] = quoted[c] => d = c
  /\ \A k \in Keys, id \in Charges : Carries(k, id) => id \in quotes
  /\ OneKeyPerCharge

\* A step hands out a fresh id, or records one, or leaves the charges alone.
LEMMA QuotesMove ==
  ASSUME TypeOK, [Next]_vars,
         ~(\E c \in Clients, id \in Charges : Issue(c, id)), ~(\E c \in Clients : RecordCharge(c))
  PROVE  /\ quotes' = quotes
         /\ \A d \in Clients : quoted'[d] \in {quoted[d], NoCharge}
         /\ \A k \in Keys, id \in Charges : Carries(k, id)' => Carries(k, id)
<1>1. quotes' = quotes /\ \A d \in Clients : quoted'[d] \in {quoted[d], NoCharge}
  <2> USE DEF TypeOK, RequestTypeOK, Goto, Answer, Leave, worldVars, requestVars
  <2>1. CASE \E c \in Clients : Move(c)
    <3>1. PICK c \in Clients : Move(c)
      BY <2>1
    <3>2. CASE (\E q \in Requests : Arrive(c, q)) \/ Cancel(c)
      BY <3>2 DEF Arrive, Cancel
    <3>3. CASE Admit(c) \/ Gate(c) \/ ReservePublish(c) \/ LockEgress(c) \/ RegateEgress(c)
      BY <3>3 DEF Admit, Gate, ReservePublish, LockEgress, RegateEgress
    <3>4. CASE Perform(c) \/ PerformFails(c) \/ Record(c) \/ RecordPublish(c)
      BY <3>4 DEF Perform, PerformFails, Record, RecordPublish
    <3> QED
      BY <3>1, <3>2, <3>3, <3>4 DEF Move, Handler
  <2>2. CASE (\E burn \in Burns : Tick(burn)) \/ LeaseVerdict \/ Crash \/ UNCHANGED vars
    BY <2>2 DEF Tick, LeaseVerdict, Crash, vars
  <2> QED
    BY <2>1, <2>2, NextIsMove
<1>2. ASSUME NEW k \in Keys, NEW id \in Charges, Carries(k, id)'
      PROVE  Carries(k, id)
  <2>1. CASE Performed(k)
    BY <1>2, <2>1, RowsKeptStep DEF Carries
  <2>2. CASE ~Performed(k)
    <3>1. PICK c \in Clients : /\ ReservePublish(c) \/ Record(c)
                               /\ req[c] \in Requests /\ req[c].key = k
                               /\ Record(c) => DebitOutcome(k, actual[c]) = "Debited"
      BY <1>2, <2>2, RowIsHandlers DEF Carries
    <3>2. PICK cost \in Nat, h \in Hashes \cup {NoHash} : debit_and_record(k, cost, h)
      BY <3>1, RequestsTyped DEF ReservePublish, Record, TypeOK, RequestTypeOK, RequestFacts
    <3>3. ledger'[k].proof = NoCharge
      <4>1. DebitOutcome(k, cost) = "Debited"
        BY <1>2, <2>2, <3>2 DEF Carries, debit_and_record, Performed
      <4>2. ledger'[k] = [cost_sats |-> cost, after |-> balance - cost,
                          proof |-> NoCharge, request_hash |-> h]
        BY <3>2, <4>1, DebitedIsPerformed DEF TypeOK
      <4> QED
        BY <4>2
    <3> QED
      BY <1>2, <3>3, TreasuryAssumption DEF Carries
  <2> QED
    BY <2>1, <2>2
<1> QED
  BY <1>1, <1>2

LEMMA QuotedStep == ASSUME TypeOK, QuotedInv, [Next]_vars PROVE QuotedInv'
<1>1. CASE \E c \in Clients, id \in Charges : Issue(c, id)
  <2>1. PICK c \in Clients, id \in Charges : Issue(c, id)
    BY <1>1
  <2>2. /\ id \notin quotes /\ quotes' = quotes \cup {id}
        /\ quoted' = [quoted EXCEPT ![c] = id] /\ ledger' = ledger
    BY <2>1 DEF Issue, treasuryVars, stores
  <2>3. \A d \in Clients : quoted'[d] = IF d = c THEN id ELSE quoted[d]
    BY <2>2 DEF TypeOK, RequestTypeOK
  <2> QED
    BY <2>2, <2>3 DEF QuotedInv, OneKeyPerCharge, Carries, Performed
<1>2. CASE \E c \in Clients : RecordCharge(c)
  <2>1. PICK c \in Clients : RecordCharge(c)
    BY <1>2
  <2>2. req[c].key \in Keys
    BY <2>1, RequestsTyped DEF RecordCharge, TypeOK, RequestTypeOK, RequestFacts
  <2>3. /\ quotes' = quotes
        /\ \A d \in Clients : quoted'[d] = IF d = c THEN NoCharge ELSE quoted[d]
    BY <2>1 DEF RecordCharge, Answer, Leave, worldVars, TypeOK, RequestTypeOK
  <2>4. \A k \in Keys, id \in Charges :
          Carries(k, id)' => Carries(k, id) \/ (k = req[c].key /\ id = quoted[c])
    BY <2>1, <2>2 DEF RecordCharge, record_charge_atomic, Carries, Performed, TypeOK, TreasuryTypeOK
  <2> QED
    BY <2>3, <2>4, TreasuryAssumption DEF QuotedInv, OneKeyPerCharge, Carries
<1>3. CASE ~(\E c \in Clients, id \in Charges : Issue(c, id)) /\ ~(\E c \in Clients : RecordCharge(c))
  BY <1>3, QuotesMove, TreasuryAssumption DEF QuotedInv, OneKeyPerCharge, Carries
<1> QED
  BY <1>1, <1>2, <1>3

(* A charge id is on one row only: whatever handlers race on a key, and for    *)
(* however long they wait on the provider, a payment settles one key           *)
(* (authorize_issue_charge).                                                   *)
THEOREM ChargeIsForOneKey == Spec => []OneKeyPerCharge
<1>1. Init => QuotedInv
  BY TreasuryAssumption DEF Init, TreasuryInit, QuotedInv, OneKeyPerCharge, Carries, Performed
<1>2. QuotedInv => OneKeyPerCharge
  BY DEF QuotedInv
<1> QED
  BY <1>1, <1>2, QuotedStep, GatewayTypesSafe, PTL DEF Spec

-----------------------------------------------------------------------------
(* Writes.  The genome writes mem-write-n under the write sequence n, and has  *)
(* one write in flight.                                                        *)
KeysNameWrites ==
  \A p, q \in Requests : p.act = "memory" /\ q.key = p.key => q.act = "memory" /\ q.wseq = p.wseq

Writing(c) == pc[c] # "idle" /\ req[c].act = "memory"

OneWriter == \A c, d \in Clients : Writing(c) /\ Writing(d) => c = d

Served(w) == head # NoRequest /\ head.wseq >= w

FloorAbove == \A w \in RecordedWseqs : w < wseq_floor

PastFloor ==
  \A c \in Clients : Writing(c) /\ pc[c] \in {"perform", "record"} => wseq_floor <= req[c].wseq

WrittenServed == \A c \in Clients : Writing(c) /\ pc[c] = "record" => Served(req[c].wseq)

LastSent == \A c \in Clients : Writing(c) => req[c].wseq = sent

(* A token answers for a write of this run, which later ones have not undone.  *)
TokensServed ==
  \A p \in Requests : p.act = "memory" /\ p.key \in tokens => p.wseq <= sent /\ Served(p.wseq)

WriterInv ==
  /\ PlacesInv /\ RecordedWriteServed
  /\ FloorAbove /\ PastFloor /\ WrittenServed /\ LastSent /\ TokensServed

(* What each step does to the ledger's writes, the floor, the store, its       *)
(* tokens, and what the genome has sent.                                       *)
Committed(c) ==
  /\ Record(c) /\ req[c].act = "memory" /\ req[c] \in Requests
  /\ DebitOutcome(req[c].key, actual[c]) = "Debited"

LEMMA RecordedStep ==
  ASSUME KeysNameWrites, PlacesInv, [Next]_vars, NEW w \in RecordedWseqs', w \notin RecordedWseqs
  PROVE  \E c \in Clients : Committed(c) /\ w = req[c].wseq
<1>1. PICK p \in Requests : p.act = "memory" /\ Performed(p.key)' /\ w = p.wseq
  BY DEF RecordedWseqs
<1>2. ~Performed(p.key) /\ p.key \in Keys
  BY <1>1, RequestsTyped DEF RecordedWseqs, RequestFacts
<1>3. PICK c \in Clients :
        /\ ReservePublish(c) \/ Record(c) \/ RecordCharge(c)
        /\ req[c] \in Requests /\ req[c].key = p.key
        /\ Record(c) => DebitOutcome(p.key, actual[c]) = "Debited"
  BY <1>1, <1>2, RowIsHandlers DEF PlacesInv
<1>4. req[c].act = "memory" /\ req[c].wseq = w
  BY <1>1, <1>3 DEF KeysNameWrites
<1>5. Record(c)
  BY <1>3, <1>4 DEF ReservePublish, RecordCharge, PlacesInv, PlacedAt
<1> QED
  BY <1>3, <1>4, <1>5 DEF Committed

LEMMA FloorStep ==
  ASSUME PlacesInv, [Next]_vars, ~Crash
  PROVE  /\ wseq_floor' >= wseq_floor
         /\ wseq_floor' # wseq_floor => \E c \in Clients : Committed(c)
         /\ \A c \in Clients : Committed(c) => req[c].wseq < wseq_floor'
<1>1. wseq_floor \in Nat /\ wseq_floor' \in Nat
  BY PlacesStep DEF PlacesInv, TypeOK, DaemonTypeOK
<1>2. ASSUME NEW c \in Clients, Record(c)
      PROVE  /\ req[c] \in Requests /\ req[c].wseq \in Nat /\ wseq_floor' >= wseq_floor
             /\ wseq_floor' # wseq_floor => Committed(c)
             /\ Committed(c) => req[c].wseq < wseq_floor'
  <2>1. req[c] \in Requests /\ req[c].wseq \in Nat
    BY <1>2, RequestsTyped DEF Record, PlacesInv, TypeOK, RequestTypeOK, RequestFacts
  <2> QED
    BY <1>1, <1>2, <2>1 DEF Record, Committed
<1>3. CASE \E c \in Clients : Record(c)
  BY <1>2, <1>3 DEF Committed
<1>4. CASE ~\E c \in Clients : Record(c)
  <2>1. UNCHANGED wseq_floor
    BY <1>4 DEF Next, Handler, Arrive, Admit, Gate, ReservePublish, LockEgress, RegateEgress,
      Perform, Issue, PerformFails, RecordPublish, RecordCharge, Cancel, Tick, LeaseVerdict,
      vars, daemonVars
  <2> QED
    BY <1>1, <1>4, <2>1 DEF Committed
<1> QED
  BY <1>3, <1>4

LEMMA HeadStep ==
  ASSUME TypeOK, [Next]_vars, head' # head
  PROVE  \E c \in Clients :
           /\ Writing(c) /\ pc[c] = "perform" /\ head' = req[c] /\ req[c] \in Requests
           /\ ~Crash /\ sent' = sent
<1>1. PICK c \in Clients : Perform(c) \/ PerformFails(c)
  BY DEF Next, Handler, Arrive, Admit, Gate, ReservePublish, LockEgress, RegateEgress,
    Issue, Record, RecordPublish, RecordCharge, Cancel, Tick, LeaseVerdict, Crash, vars, worldVars
<1>2. pc[c] = "perform" /\ req[c] \in Requests /\ pc'[c] # "perform" /\ sent' = sent
  BY <1>1 DEF Perform, PerformFails, TypeOK, RequestTypeOK, Goto, Answer, Leave, boundVars
<1>3. head' = req[c] /\ req[c].act = "memory"
  BY <1>1 DEF Perform, PerformFails, Effect
<1>4. ~Crash
  BY DEF Crash
<1> QED
  BY <1>2, <1>3, <1>4 DEF Writing

LEMMA TokensStep ==
  ASSUME TypeOK, [Next]_vars, NEW k \in tokens', k \notin tokens
  PROVE  \E c \in Clients :
           /\ Perform(c) /\ Writing(c) /\ req[c] \in Requests /\ req[c].key = k
           /\ head' = req[c] /\ sent' = sent
<1>1. PICK c \in Clients : Perform(c)
  BY DEF Next, Handler, Arrive, Admit, Gate, ReservePublish, LockEgress, RegateEgress,
    Issue, PerformFails, Record, RecordPublish, RecordCharge, Cancel, Tick, LeaseVerdict,
    Crash, vars, worldVars
<1>2. req[c] \in Requests
  BY <1>1 DEF Perform, TypeOK, RequestTypeOK
<1> QED
  BY <1>1, <1>2 DEF Perform, Effect, Writing, boundVars

LEMMA SentStep ==
  ASSUME TypeOK, [Next]_vars, ~Crash
  PROVE  /\ sent' \in Nat /\ sent' >= sent
         /\ sent' # sent => \E c \in Clients : Writing(c)' /\ ~Writing(c) /\ req'[c].wseq = sent'
<1>1. CASE \E c \in Clients, q \in Requests : Arrive(c, q)
  <2>1. PICK c \in Clients, q \in Requests : Arrive(c, q)
    BY <1>1
  <2>2. RequestFacts(q)
    BY RequestsTyped
  <2>3. pc[c] = "idle" /\ pc'[c] = "admit" /\ req'[c] = q
    BY <2>1 DEF Arrive, TypeOK, RequestTypeOK
  <2> QED
    BY <2>1, <2>2, <2>3 DEF Arrive, Writing, TypeOK, RequestFacts
<1>2. CASE ~\E c \in Clients, q \in Requests : Arrive(c, q)
  <2>1. UNCHANGED sent
    BY <1>2 DEF Next, Handler, Admit, Gate, ReservePublish, LockEgress, RegateEgress,
      Perform, Issue, PerformFails, Record, RecordPublish, RecordCharge, Cancel, Tick,
      LeaseVerdict, vars, boundVars
  <2> QED
    BY <2>1 DEF TypeOK
<1> QED
  BY <1>1, <1>2

LEMMA MovesOrStays ==
  ASSUME TypeOK, [Next]_vars, NEW c \in Clients, pc'[c] # "idle", ~Move(c)
  PROVE  pc'[c] = pc[c] /\ req'[c] = req[c]
<1>1. ~Crash
  BY DEF Crash
<1>2. CASE (\E burn \in Burns : Tick(burn)) \/ LeaseVerdict \/ UNCHANGED vars
  BY <1>2 DEF Tick, LeaseVerdict, vars, requestVars
<1>3. CASE \E d \in Clients : Move(d)
  BY <1>3, OthersStay
<1> QED
  BY <1>1, <1>2, <1>3, NextIsMove

(* A write that moves: it arrives, passes the floor on its way out of the      *)
(* gate, is performed, and keeps its request all the way.                      *)
LEMMA WriteMoves ==
  ASSUME PlacesInv, [Next]_vars, NEW c \in Clients, Move(c), Writing(c)'
  PROVE  /\ req'[c] \in Requests
         /\ ~Writing(c) => sent' = req'[c].wseq /\ pc'[c] = "admit"
         /\ Writing(c) => req'[c] = req[c] /\ sent' = sent
         /\ pc'[c] = "perform" => req[c].wseq >= wseq_floor /\ wseq_floor' = wseq_floor
         /\ pc'[c] = "record" => Perform(c) /\ pc[c] = "perform"
<1> USE DEF Writing, PlacesInv, TypeOK, RequestTypeOK, Goto, Leave, Answer
<1>0. req'[c] \in Requests
  BY PlacesStep
<1>1. CASE \E q \in Requests : Arrive(c, q)
  BY <1>0, <1>1 DEF Arrive
<1>2. CASE Admit(c)
  BY <1>0, <1>2 DEF Admit, boundVars
<1>3. CASE Gate(c)
  <2>1. GateOutcome(req[c]) = "Passed" /\ req'[c] = req[c] /\ pc[c] = "gate" /\ sent' = sent
        /\ wseq_floor' = wseq_floor
    BY <1>3 DEF Gate, boundVars, daemonVars
  <2>2. pc'[c] = "perform"
    BY <1>3, <2>1 DEF Gate, Fork
  <2>3. req[c].wseq >= wseq_floor
    <3>1. req[c].wseq \in Nat /\ wseq_floor \in Nat
      BY <1>0, <2>1, RequestsTyped DEF RequestFacts, DaemonTypeOK
    <3>2. ~BelowFloor(req[c])
      BY <2>1 DEF GateOutcome
    <3> QED
      BY <2>1, <3>1, <3>2 DEF BelowFloor
  <2> QED
    BY <1>0, <2>1, <2>2, <2>3
<1>4. CASE Perform(c)
  BY <1>0, <1>4 DEF Perform, boundVars
<1>5. ~ReservePublish(c) /\ ~LockEgress(c) /\ ~RegateEgress(c)
  BY DEF ReservePublish, LockEgress, RegateEgress, PlacedAt
<1>6. ~(\E id \in Charges : Issue(c, id)) /\ ~PerformFails(c)
  BY DEF Issue, PerformFails
<1>7. ~Record(c) /\ ~RecordPublish(c) /\ ~RecordCharge(c) /\ ~Cancel(c)
  BY DEF Record, RecordPublish, RecordCharge, Cancel
<1> QED
  BY <1>1, <1>2, <1>3, <1>4, <1>5, <1>6, <1>7 DEF Move, Handler

LEMMA ServedTyped ==
  ASSUME TypeOK, head # NoRequest
  PROVE  head.wseq \in Nat
BY RequestsTyped DEF TypeOK, WorldTypeOK, RequestFacts

(* What is served stays served: only a write at or above it replaces it.       *)
LEMMA ServedStep ==
  ASSUME WriterInv, [Next]_vars, NEW w \in Nat, Served(w),
         \A c \in Clients : Writing(c) /\ pc[c] = "perform" => w <= req[c].wseq
  PROVE  Served(w)'
<1>1. CASE head' = head
  BY <1>1 DEF Served
<1>2. CASE head' # head
  <2>1. PICK c \in Clients :
          Writing(c) /\ pc[c] = "perform" /\ head' = req[c] /\ req[c] \in Requests
    BY <1>2, HeadStep DEF WriterInv, PlacesInv
  <2>2. req[c].wseq \in Nat
    BY <2>1, RequestsTyped DEF RequestFacts
  <2> QED
    BY <2>1, <2>2, GatewayAssumption DEF Served
<1> QED
  BY <1>1, <1>2

LEMMA WriterStep ==
  ASSUME KeysNameWrites, WriterInv, OneWriter, OneWriter', [Next]_vars
  PROVE  WriterInv'
<1> USE DEF WriterInv
<1>1. PlacesInv' /\ TypeOK /\ TypeOK'
  BY PlacesStep DEF PlacesInv
<1>2. /\ wseq_floor \in Nat /\ wseq_floor' \in Nat /\ sent \in Nat
      /\ \A w \in RecordedWseqs \cup RecordedWseqs' : w \in Nat
  BY <1>1, RequestsTyped DEF TypeOK, DaemonTypeOK, RecordedWseqs, RequestFacts
<1>3. \A c \in Clients : pc[c] # "idle" => req[c] \in Requests /\ req[c].wseq \in Nat
  BY <1>1, RequestsTyped DEF TypeOK, RequestTypeOK, RequestFacts
<1>4. \A c \in Clients, d \in Clients : Writing(c) /\ Committed(d) => c = d
  BY DEF OneWriter, Writing, Committed, Record
<1>5. FloorAbove'
  <2> SUFFICES ASSUME NEW w \in RecordedWseqs' PROVE w < wseq_floor'
    BY DEF FloorAbove
  <2>1. CASE Crash
    <3>1. RecordedWseqs' = RecordedWseqs
      BY <2>1 DEF Crash, Open, stores, RecordedWseqs, Performed
    <3> QED
      BY <2>1, <3>1 DEF Crash, SeededFloors
  <2>2. CASE ~Crash
    BY <1>2, <2>2, FloorStep, RecordedStep DEF FloorAbove
  <2> QED
    BY <2>1, <2>2
<1>6. RecordedWriteServed'
  <2> SUFFICES ASSUME NEW w \in RecordedWseqs' PROVE Served(w)'
    BY DEF RecordedWriteServed, Served
  <2>1. Served(w)
    <3>1. CASE w \in RecordedWseqs
      BY <3>1 DEF RecordedWriteServed, Served
    <3>2. CASE w \notin RecordedWseqs
      BY <3>2, RecordedStep DEF Committed, Record, WrittenServed, Writing
    <3> QED
      BY <3>1, <3>2
  <2>2. \A c \in Clients : Writing(c) /\ pc[c] = "perform" => w <= req[c].wseq
    <3>1. CASE w \in RecordedWseqs
      BY <1>2, <1>3, <3>1 DEF FloorAbove, PastFloor, Writing
    <3>2. CASE w \notin RecordedWseqs
      BY <1>4, <3>2, RecordedStep DEF Committed, Record
    <3> QED
      BY <3>1, <3>2
  <2> QED
    BY <1>2, <2>1, <2>2, ServedStep
<1>7. PastFloor'
  <2> SUFFICES ASSUME NEW c \in Clients, Writing(c)', pc'[c] \in {"perform", "record"}
               PROVE  wseq_floor' <= req'[c].wseq
    BY DEF PastFloor, Writing
  <2>1. ~Crash
    BY DEF Crash
  <2>2. CASE Move(c)
    <3>1. Writing(c) /\ req'[c] = req[c]
      BY <2>2, WriteMoves
    <3>2. CASE pc'[c] = "perform"
      BY <1>2, <1>3, <2>2, <3>1, <3>2, WriteMoves DEF Writing
    <3>3. CASE pc'[c] = "record"
      <4>1. pc[c] = "perform"
        BY <2>2, <3>3, WriteMoves
      <4>2. ~Committed(c)
        BY <4>1 DEF Committed, Record
      <4>3. wseq_floor' = wseq_floor
        BY <1>4, <2>1, <3>1, <4>2, FloorStep
      <4> QED
        BY <3>1, <4>1, <4>3 DEF PastFloor
    <3> QED
      BY <3>2, <3>3
  <2>3. CASE ~Move(c)
    <3>1. pc'[c] = pc[c] /\ req'[c] = req[c]
      BY <1>1, <2>3, MovesOrStays DEF Writing
    <3>2. Writing(c)
      BY <3>1 DEF Writing
    <3>3. wseq_floor' = wseq_floor
      BY <1>4, <2>1, <2>3, <3>2, FloorStep DEF Committed, Move, Handler
    <3> QED
      BY <3>1, <3>2, <3>3 DEF PastFloor
  <2> QED
    BY <2>2, <2>3
<1>8. WrittenServed'
  <2> SUFFICES ASSUME NEW c \in Clients, Writing(c)', pc'[c] = "record"
               PROVE  head' # NoRequest /\ head'.wseq >= req'[c].wseq
    BY DEF WrittenServed, Writing, Served
  <2>1. CASE Move(c)
    <3>1. Writing(c) /\ req'[c] = req[c] /\ Perform(c) /\ req[c] \in Requests
      BY <1>3, <2>1, WriteMoves DEF Writing
    <3>2. CASE AlreadyCommitted(req[c])
      <4>1. Served(req[c].wseq) /\ head' = head
        BY <3>1, <3>2 DEF AlreadyCommitted, TokensServed, Perform
      <4> QED
        BY <3>1, <4>1 DEF Served
    <3>3. CASE ~AlreadyCommitted(req[c])
      <4>1. head' = req[c]
        BY <3>1, <3>3 DEF Perform, Effect, Writing
      <4>2. req[c].wseq >= req[c].wseq
        BY <1>3, <3>1 DEF Writing
      <4> QED
        BY <3>1, <4>1, <4>2, GatewayAssumption
    <3> QED
      BY <3>2, <3>3
  <2>2. CASE ~Move(c)
    <3>1. pc'[c] = pc[c] /\ req'[c] = req[c]
      BY <1>1, <2>2, MovesOrStays DEF Writing
    <3>2. Writing(c) /\ Served(req[c].wseq)
      BY <3>1 DEF Writing, WrittenServed
    <3>3. head' = head
      BY <1>1, <3>1, <3>2, HeadStep DEF OneWriter
    <3> QED
      BY <3>1, <3>2, <3>3 DEF Served
  <2> QED
    BY <2>1, <2>2
<1>9. LastSent'
  <2> SUFFICES ASSUME NEW c \in Clients, Writing(c)' PROVE req'[c].wseq = sent'
    BY DEF LastSent, Writing
  <2>1. CASE Move(c)
    BY <2>1, WriteMoves DEF LastSent
  <2>2. CASE ~Move(c)
    <3>1. pc'[c] = pc[c] /\ req'[c] = req[c] /\ ~Crash
      BY <1>1, <2>2, MovesOrStays DEF Writing, Crash
    <3>2. Writing(c)
      BY <3>1 DEF Writing
    <3>3. sent' = sent
      BY <1>1, <3>1, <3>2, SentStep DEF OneWriter, Writing
    <3> QED
      BY <3>1, <3>2, <3>3 DEF LastSent
  <2> QED
    BY <2>1, <2>2
<1>10. TokensServed'
  <2> SUFFICES ASSUME NEW p \in Requests, p.act = "memory", p.key \in tokens'
               PROVE  p.wseq <= sent' /\ Served(p.wseq)'
    BY DEF TokensServed, Served
  <2>1. p.wseq \in Nat /\ ~Crash
    BY RequestsTyped DEF RequestFacts, Crash
  <2>2. CASE p.key \in tokens
    <3>1. p.wseq <= sent /\ Served(p.wseq)
      BY <2>2 DEF TokensServed
    <3>2. \A c \in Clients : Writing(c) /\ pc[c] = "perform" => p.wseq <= req[c].wseq
      BY <3>1 DEF LastSent
    <3>3. sent' \in Nat /\ sent' >= sent
      BY <1>1, <2>1, SentStep
    <3> QED
      BY <1>2, <2>1, <3>1, <3>2, <3>3, ServedStep
  <2>3. CASE p.key \notin tokens
    <3>1. PICK c \in Clients :
            /\ Writing(c) /\ req[c] \in Requests /\ req[c].key = p.key
            /\ head' = req[c] /\ sent' = sent
      BY <1>1, <2>3, TokensStep
    <3>2. req[c].wseq = p.wseq /\ req[c].wseq = sent
      BY <3>1 DEF KeysNameWrites, LastSent
    <3> QED
      BY <1>2, <2>1, <3>1, <3>2, GatewayAssumption DEF Served
  <2> QED
    BY <2>2, <2>3
<1> QED
  BY <1>1, <1>5, <1>6, <1>7, <1>8, <1>9, <1>10

(* For a genome that has one write in flight and names each write by its       *)
(* sequence, a recorded write is never rolled back: the store serves it or a   *)
(* later one, also after a write that was dropped before its debit is sent     *)
(* again and after a resume from a checkpoint (the floor of R2-7).             *)
THEOREM RecordedWritesStay ==
  ASSUME KeysNameWrites
  PROVE  Spec /\ []OneWriter => []RecordedWriteServed
<1>1. Init => WriterInv
  <2> SUFFICES ASSUME Init PROVE WriterInv
    OBVIOUS
  <2>1. RecordedWseqs = {} /\ tokens = {} /\ \A c \in Clients : ~Writing(c)
    <3>1. \A p \in Requests : ~Performed(p.key)
      BY RequestsTyped DEF Init, TreasuryInit, Performed, RequestFacts
    <3> QED
      BY <3>1 DEF Init, RecordedWseqs, Writing
  <2> QED
    BY <2>1, PlacesInvariantInit DEF WriterInv, RecordedWriteServed, FloorAbove, PastFloor,
      WrittenServed, LastSent, TokensServed
<1>2. WriterInv /\ OneWriter /\ OneWriter' /\ [Next]_vars => WriterInv'
  BY WriterStep
<1>3. WriterInv => RecordedWriteServed
  BY DEF WriterInv
<1> QED
  BY <1>1, <1>2, <1>3, PTL DEF Spec
=============================================================================
