-------------------------- MODULE SettlementProofs --------------------------
(* What settle_charge guards, for any number of calls, charges and locks: the  *)
(* per-charge lock excludes although its entry comes and goes, so a resolved   *)
(* charge is dead to the wallet, and a charge is redeemed twice only when a    *)
(* call was cut off between the wallet and the books. Every notice is of a     *)
(* credit that is in the books, and the settlement moves the agent's account.  *)
EXTENDS Settlement, FiniteSetTheorems, TLAPS

(* Recording a charge (record_charge_atomic) keeps the types.                  *)
LEMMA ChargeTypes ==
  ASSUME TreasuryTypeOK, NEW k \in Keys, NEW c \in Charges \cup {NoCharge},
         NEW wired \in Rails, NEW hash \in Hashes \cup {NoHash},
         record_charge_atomic(k, c, wired, hash)
  PROVE  TreasuryTypeOK'
<1>1. [cost_sats |-> 0, after |-> balance, proof |-> c, request_hash |-> hash]
        \in PerformedRecord
  BY TreasuryAssumption DEF PerformedRecord, TreasuryTypeOK, Sats
<1> QED
  BY <1>1 DEF record_charge_atomic, TreasuryTypeOK

(* A credit (credit_verified) keeps the types: it is refused when the balance  *)
(* would exceed MaxSats.                                                       *)
LEMMA CreditTypes ==
  ASSUME TreasuryTypeOK, NEW c \in Charges, NEW amount \in Nat,
         credit_verified(c, amount)
  PROVE  TreasuryTypeOK'
<1>1. CASE CreditOutcome(c, amount) = "Credited"
  <2>1. balance + amount \in Sats
    BY <1>1, TreasuryAssumption DEF CreditOutcome, classify_prior, TreasuryTypeOK, Sats
  <2> QED
    BY <1>1, <2>1 DEF credit_verified, TreasuryTypeOK, CreditRecord
<1>2. CASE CreditOutcome(c, amount) = "Overflow"
  BY <1>2 DEF credit_verified, TreasuryTypeOK, CreditRecord
<1>3. CASE CreditOutcome(c, amount) \notin {"Credited", "Overflow"}
  BY <1>3 DEF credit_verified, TreasuryTypeOK
<1> QED
  BY <1>1, <1>2, <1>3

(* A restart (open) keeps the types.                                           *)
LEMMA OpenTypes ==
  ASSUME TreasuryTypeOK, Open
  PROVE  TreasuryTypeOK'
BY DEF Open, stores, TreasuryTypeOK

(* What a call carries while it runs; the charges issued are of the wired rail. *)
Placed ==
  /\ \A s \in Settlers :
       /\ pc[s] = "idle" => lock[s] = NoLock
       /\ pc[s] # "idle" => charge[s] \in Charges /\ lock[s] \in Locks
       /\ pc[s] # "idle" /\ rail = "Cashu" => evidence[s] \in Tokens
  /\ \A c \in Charges : issued_charges[c] \in {rail, NoRow}

TypeInv == TypeOK /\ Placed

LEMMA RailIsRail == TypeOK => rail \in Rails /\ "Lightning" # NoRow /\ "Cashu" # NoRow
BY SettlementAssumption, NoRowAssumption DEF TypeOK, Rails

LEMMA SettleInit == Init => TypeInv
<1> SUFFICES ASSUME Init PROVE TypeInv
  OBVIOUS
<1>1. TreasuryTypeOK
  BY TreasuryAssumption DEF Init, TreasuryInit, TreasuryTypeOK, Sats
<1>2. TypeOK
  BY <1>1, SettlementAssumption DEF Init, TypeOK, Steps
<1>3. Placed
  BY DEF Init, TreasuryInit, Placed
<1> QED
  BY <1>2, <1>3 DEF TypeInv

(* There is always a lock nobody refers to, for a call that comes.             *)
LEMMA FreshLockIsFresh ==
  ASSUME TypeInv, NEW s \in Settlers, NEW c \in Charges, pc[s] = "idle", settle_locks[c] = NoLock
  PROVE  FreshLock \in Locks /\ strong_count(FreshLock) = 0
<1> DEFINE mapped == {settle_locks[d] : d \in Charges \ {c}}
           referred == {lock[t] : t \in Settlers \ {s}}
<1>1. /\ IsFiniteSet(Charges \ {c}) /\ Cardinality(Charges \ {c}) = Cardinality(Charges) - 1
      /\ IsFiniteSet(Settlers \ {s}) /\ Cardinality(Settlers \ {s}) = Cardinality(Settlers) - 1
      /\ Cardinality(Charges) \in Nat /\ Cardinality(Settlers) \in Nat /\ Cardinality(Locks) \in Nat
  BY SettlementAssumption, FS_RemoveElement, FS_CardinalityType
<1>2. IsFiniteSet(mapped) /\ Cardinality(mapped) <= Cardinality(Charges) - 1
  <2> DEFINE f == [d \in Charges \ {c} |-> settle_locks[d]]
  <2>1. f \in Surjection(Charges \ {c}, mapped)
    BY DEF Surjection
  <2> HIDE DEF f, mapped
  <2> QED
    BY <1>1, <2>1, FS_Surjection
<1>3. IsFiniteSet(referred) /\ Cardinality(referred) <= Cardinality(Settlers) - 1
  <2> DEFINE f == [t \in Settlers \ {s} |-> lock[t]]
  <2>1. f \in Surjection(Settlers \ {s}, referred)
    BY DEF Surjection
  <2> HIDE DEF f, referred
  <2> QED
    BY <1>1, <2>1, FS_Surjection
<1> HIDE DEF mapped, referred
<1>4. IsFiniteSet(mapped \cup referred)
      /\ Cardinality(mapped \cup referred) <= Cardinality(mapped) + Cardinality(referred)
  <2>1. /\ IsFiniteSet(mapped \cup referred) /\ IsFiniteSet(mapped \cap referred)
        /\ Cardinality(mapped \cup referred)
             = Cardinality(mapped) + Cardinality(referred) - Cardinality(mapped \cap referred)
    BY <1>2, <1>3, FS_Union, FS_Intersection
  <2> QED
    BY <1>2, <1>3, <2>1, FS_CardinalityType
<1>5. PICK l \in Locks : l \notin mapped \cup referred
  <2>1. SUFFICES ASSUME Locks \subseteq mapped \cup referred PROVE FALSE
    OBVIOUS
  <2>2. Cardinality(Locks) <= Cardinality(mapped \cup referred)
    BY <1>4, <2>1, FS_Subset
  <2> QED
    BY <1>1, <1>2, <1>3, <1>4, <2>2, SettlementAssumption, FS_CardinalityType
<1>6. strong_count(l) = 0
  <2>1. {d \in Charges : settle_locks[d] = l} = {}
    BY <1>5, SettlementAssumption DEF mapped
  <2>2. {t \in Settlers : lock[t] = l} = {}
    BY <1>5, SettlementAssumption DEF referred, TypeInv, Placed
  <2> QED
    BY <2>1, <2>2, FS_EmptySet DEF strong_count
<1> QED
  BY <1>5, <1>6 DEF FreshLock

-----------------------------------------------------------------------------
(* The types.  A call that comes, and one that goes from step to step.         *)
LEMMA EntryTypes ==
  ASSUME TypeInv, NEW s \in Settlers, NEW c \in Charges, NEW e \in Tokens \cup {NoToken},
         rail = "Cashu" => e \in Tokens, settle_charge(s, c, e)
  PROVE  TypeInv'
<1>1. LockFor(c) \in Locks
  BY FreshLockIsFresh DEF settle_charge, LockFor, TypeInv, TypeOK
<1>2. pc' \in [Settlers -> Steps] /\ pc'[s] \in {"lookup", "wait"}
       /\ \A t \in Settlers : t # s => pc'[t] = pc[t]
  BY DEF settle_charge, Goto, TypeInv, TypeOK, Steps
<1>3. owner' \in [Locks -> Settlers \cup {NoSettler}]
  BY <1>1 DEF settle_charge, TypeInv, TypeOK
<1>4. /\ charge' = [charge EXCEPT ![s] = c] /\ evidence' = [evidence EXCEPT ![s] = e]
      /\ lock' = [lock EXCEPT ![s] = LockFor(c)]
      /\ settle_locks' = [settle_locks EXCEPT ![c] = LockFor(c)]
      /\ UNCHANGED <<rail, treasuryVars, verified, inbox, stranded, mintVars, boundVars>>
  BY DEF settle_charge
<1> HIDE DEF LockFor
<1>5. TypeOK'
  BY <1>1, <1>2, <1>3, <1>4
     DEF TypeInv, TypeOK, treasuryVars, stores, TreasuryTypeOK, mintVars, boundVars
<1>6. Placed'
  BY <1>1, <1>2, <1>4 DEF TypeInv, TypeOK, Placed, treasuryVars, stores
<1> QED
  BY <1>5, <1>6 DEF TypeInv

LEMMA StepTypes ==
  ASSUME TypeInv, NEW s \in Settlers, NEW step \in Steps \ {"idle"}, pc[s] # "idle", Goto(s, step),
         verified' \in [Settlers -> Nat], UNCHANGED <<rail, charge, evidence, lock>>,
         settle_locks' \in [Charges -> Locks \cup {NoLock}],
         owner' \in [Locks -> Settlers \cup {NoSettler}],
         TreasuryTypeOK', issued_charges' = issued_charges,
         inbox' \in [Charges -> Nat], stranded' \subseteq Charges,
         quote' \in [Charges -> {"Unpaid", "Paid", "Issued"}], spent' \subseteq Tokens,
         held' \in [Charges -> Nat], minted' \in [Charges -> Nat], redeemed' \in [Charges -> Nat],
         crashes' = crashes, cancels' \in 0..MaxCancels, spends' = spends
  PROVE  TypeInv'
<1>1. pc' \in [Settlers -> Steps] /\ pc'[s] = step /\ \A t \in Settlers : t # s => pc'[t] = pc[t]
  BY DEF Goto, TypeInv, TypeOK
<1>2. TypeOK'
  BY <1>1 DEF TypeInv, TypeOK
<1>3. Placed'
  BY <1>1 DEF TypeInv, Placed
<1> QED
  BY <1>2, <1>3 DEF TypeInv

(* The steps of a call up to the mint.                                         *)
LEMMA WaitTypes ==
  ASSUME TypeInv, NEW s \in Settlers, Acquire(s) \/ Lookup(s) \/ Cancel(s) \/ VerifyFails(s)
  PROVE  TypeInv'
<1>1. \E step \in Steps \ {"idle"} : Goto(s, step)
  BY DEF Acquire, Lookup, Cancel, VerifyFails, Steps
<1>2. pc[s] # "idle"
  BY DEF Acquire, Lookup, Cancel, VerifyFails
<1>3. /\ UNCHANGED <<rail, treasuryVars, charge, evidence, verified, lock, settle_locks,
                     inbox, stranded, mintVars, crashes, spends>>
      /\ owner' = owner \/ owner' = [owner EXCEPT ![lock[s]] = s]
      /\ cancels' = cancels \/ (cancels < MaxCancels /\ cancels' = cancels + 1)
  BY DEF Acquire, Lookup, Cancel, VerifyFails, lockVars, boundVars
<1>4. owner' \in [Locks -> Settlers \cup {NoSettler}] /\ cancels' \in 0..MaxCancels
  BY <1>3, SettlementAssumption DEF TypeInv, TypeOK
<1>5. TreasuryTypeOK' /\ issued_charges' = issued_charges
  BY <1>3 DEF treasuryVars, stores, TypeInv, TypeOK, TreasuryTypeOK
<1> QED
  BY <1>1, <1>2, <1>3, <1>4, <1>5, StepTypes DEF TypeInv, TypeOK, mintVars

LEMMA GainTypes ==
  ASSUME TypeInv, NEW c \in Charges, Gain(c)
  PROVE  held' \in [Charges -> Nat] /\ minted' \in [Charges -> Nat] /\ redeemed' \in [Charges -> Nat]
<1>1. Price \in Nat
  BY SettlementAssumption
<1> QED
  BY <1>1 DEF Gain, TypeInv, TypeOK

LEMMA MintTypes ==
  ASSUME TypeInv, NEW s \in Settlers,
         CheckQuote(s) \/ Mint(s) \/ MintInterrupted(s) \/ Receive(s)
  PROVE  TypeInv'
<1> DEFINE c == charge[s]
<1>1. pc[s] \in {"verify", "mint"} /\ c \in Charges /\ Price \in Nat /\ MaxCancels \in Nat
  BY SettlementAssumption DEF CheckQuote, Mint, MintInterrupted, Receive, TypeInv, Placed
<1>2. \E step \in Steps \ {"idle"} : Goto(s, step)
  BY DEF CheckQuote, Mint, MintInterrupted, Receive, Steps
<1>3. /\ UNCHANGED <<rail, treasuryVars, charge, evidence, lock, lockVars, inbox, crashes, spends>>
      /\ stranded' = stranded \/ stranded' = stranded \cup {c}
      /\ cancels' = cancels \/ (cancels < MaxCancels /\ cancels' = cancels + 1)
      /\ quote' = quote \/ quote' = [quote EXCEPT ![c] = "Issued"]
      /\ Gain(c) \/ UNCHANGED <<held, minted, redeemed>>
  BY DEF CheckQuote, Mint, MintInterrupted, Receive, mintVars, boundVars
<1>4. Recoverable(c) \in Nat
  BY <1>1 DEF Recoverable, TypeInv, TypeOK
<1>5. verified' \in [Settlers -> Nat]
  BY <1>1, <1>4 DEF CheckQuote, Mint, MintInterrupted, Receive, TypeInv, TypeOK
<1>6. spent' \subseteq Tokens
  BY DEF CheckQuote, Mint, MintInterrupted, Receive, mintVars, TypeInv, TypeOK, Placed
<1>7. held' \in [Charges -> Nat] /\ minted' \in [Charges -> Nat] /\ redeemed' \in [Charges -> Nat]
  BY <1>1, <1>3, GainTypes DEF TypeInv, TypeOK
<1>8. stranded' \subseteq Charges /\ quote' \in [Charges -> {"Unpaid", "Paid", "Issued"}]
       /\ cancels' \in 0..MaxCancels
  BY <1>1, <1>3 DEF TypeInv, TypeOK
<1>9. TreasuryTypeOK' /\ issued_charges' = issued_charges
  BY <1>3 DEF treasuryVars, stores, TypeInv, TypeOK, TreasuryTypeOK
<1>10. UNCHANGED <<settle_locks, owner>>
  BY <1>3 DEF lockVars
<1> HIDE DEF c
<1> QED
  BY <1>1, <1>2, <1>3, <1>5, <1>6, <1>7, <1>8, <1>9, <1>10, StepTypes DEF TypeInv, TypeOK

(* The steps on the books, and out again.                                      *)
LEMMA BooksTypes ==
  ASSUME TypeInv, NEW s \in Settlers, Credit(s) \/ Notify(s) \/ Cleanup(s) \/ Unlock(s)
  PROVE  TypeInv'
<1> DEFINE c == charge[s]
<1>1. pc[s] # "idle" /\ c \in Charges /\ lock[s] \in Locks /\ verified[s] \in Nat
  BY DEF Credit, Notify, Cleanup, Unlock, TypeInv, TypeOK, Placed
<1>2. \E step \in Steps \ {"idle"} : Goto(s, step)
  BY DEF Credit, Notify, Cleanup, Unlock, Steps
<1>3. /\ UNCHANGED <<rail, charge, evidence, verified, lock, stranded, mintVars, boundVars>>
      /\ credit_verified(c, verified[s]) \/ UNCHANGED treasuryVars
      /\ inbox' = inbox \/ inbox' = [inbox EXCEPT ![c] = @ + verified[s]]
      /\ settle_locks' = settle_locks \/ settle_locks' = [settle_locks EXCEPT ![c] = NoLock]
      /\ owner' = owner \/ owner' = [owner EXCEPT ![lock[s]] = NoSettler]
  BY DEF Credit, Notify, Cleanup, Unlock, lockVars
<1>4. TreasuryTypeOK'
  BY <1>1, <1>3, CreditTypes DEF treasuryVars, stores, TypeInv, TypeOK, TreasuryTypeOK
<1>5. issued_charges' = issued_charges
  BY <1>3 DEF treasuryVars, stores, credit_verified
<1>6. inbox' \in [Charges -> Nat]
  BY <1>1, <1>3 DEF TypeInv, TypeOK
<1>7. settle_locks' \in [Charges -> Locks \cup {NoLock}] /\ owner' \in [Locks -> Settlers \cup {NoSettler}]
  BY <1>1, <1>3 DEF TypeInv, TypeOK
<1> HIDE DEF c
<1> QED
  BY <1>1, <1>2, <1>3, <1>4, <1>5, <1>6, <1>7, StepTypes DEF TypeInv, TypeOK, mintVars, boundVars

LEMMA DropTypes == ASSUME TypeInv, NEW s \in Settlers, Drop(s) PROVE TypeInv'
<1>1. /\ pc' = [pc EXCEPT ![s] = "idle"] /\ charge' = [charge EXCEPT ![s] = NoCharge]
      /\ evidence' = [evidence EXCEPT ![s] = NoToken] /\ verified' = [verified EXCEPT ![s] = 0]
      /\ lock' = [lock EXCEPT ![s] = NoLock]
      /\ UNCHANGED <<rail, treasuryVars, lockVars, inbox, stranded, mintVars, boundVars>>
  BY DEF Drop, Goto
<1>2. TypeOK'
  BY <1>1 DEF TypeInv, TypeOK, Steps, treasuryVars, stores, TreasuryTypeOK, lockVars, mintVars, boundVars
<1>3. Placed'
  BY <1>1 DEF TypeInv, TypeOK, Placed, treasuryVars, stores
<1> QED
  BY <1>2, <1>3 DEF TypeInv

(* What happens around the calls.                                              *)
LEMMA IssueTypes ==
  ASSUME TypeInv, NEW k \in Keys, NEW c \in Charges, NEW h \in Hashes, IssueCharge(k, c, h)
  PROVE  TypeInv'
<1>1. TreasuryTypeOK'
  BY ChargeTypes, RailIsRail DEF IssueCharge, TypeInv, TypeOK
<1>2. \A d \in Charges : issued_charges'[d] \in {rail, NoRow}
  BY DEF IssueCharge, record_charge_atomic, TypeInv, TypeOK, TreasuryTypeOK, Placed
<1>3. UNCHANGED <<rail, callVars, lockVars, inbox, stranded, mintVars, boundVars>>
  BY DEF IssueCharge
<1>4. TypeOK'
  BY <1>1, <1>3 DEF TypeInv, TypeOK, callVars, lockVars, mintVars, boundVars
<1>5. Placed'
  BY <1>2, <1>3 DEF TypeInv, Placed, callVars
<1> QED
  BY <1>4, <1>5 DEF TypeInv

LEMMA PaySpendTypes == ASSUME TypeInv, NEW c \in Charges, Pay(c) \/ Spend(c) PROVE TypeInv'
<1>1. /\ UNCHANGED <<rail, treasuryVars, callVars, lockVars, inbox, stranded, spent, minted, redeemed,
                     crashes, cancels>>
      /\ quote' = quote \/ quote' = [quote EXCEPT ![c] = "Paid"]
      /\ held' = held \/ \E left \in 0..(held[c] - 1) : held' = [held EXCEPT ![c] = left]
      /\ spends' = spends \/ (spends < MaxSpends /\ spends' = spends + 1)
  BY DEF Pay, Spend, mintVars, boundVars
<1>2. quote' \in [Charges -> {"Unpaid", "Paid", "Issued"}] /\ held' \in [Charges -> Nat]
       /\ spends' \in 0..MaxSpends
  BY <1>1, SettlementAssumption DEF TypeInv, TypeOK
<1>3. TypeOK'
  BY <1>1, <1>2 DEF TypeInv, TypeOK, treasuryVars, stores, TreasuryTypeOK, callVars, lockVars
<1>4. Placed'
  BY <1>1 DEF TypeInv, Placed, treasuryVars, stores, callVars
<1> QED
  BY <1>3, <1>4 DEF TypeInv

LEMMA CrashTypes == ASSUME TypeInv, Crash PROVE TypeInv'
<1>1. TreasuryTypeOK'
  BY OpenTypes DEF Crash, TypeInv, TypeOK
<1>2. TypeOK'
  BY <1>1, SettlementAssumption DEF Crash, TypeInv, TypeOK, Steps, mintVars
<1>3. Placed'
  BY DEF Crash, Open, stores, TypeInv, Placed
<1> QED
  BY <1>2, <1>3 DEF TypeInv

LEMMA StutterTypes == ASSUME TypeInv, UNCHANGED vars PROVE TypeInv'
BY DEF vars, TypeInv, TypeOK, Placed, treasuryVars, stores, TreasuryTypeOK, callVars, lockVars, mintVars,
       boundVars

(* A call that comes brings a token on Cashu, where the poller has no charge.  *)
Comes(s, c, e) ==
  s \in Settlers /\ c \in Charges /\ e \in Tokens \cup {NoToken} /\ (rail = "Cashu" => e \in Tokens)
    /\ settle_charge(s, c, e)

LEMMA WhoComes ==
  ASSUME TypeInv, NEW c \in Charges, Poll(c) \/ \E s \in Settlers : Submit(s, c)
  PROVE  \E s, e : Comes(s, c, e)
<1>1. CASE Poll(c)
  <2>1. rail # "Cashu" /\ Poller \in Settlers
    BY <1>1, RailIsRail, SettlementAssumption DEF Poll, issued_uncredited_charge_ids, TypeInv, Placed
  <2> QED
    BY <1>1, <2>1 DEF Poll, Comes
<1>2. CASE \E s \in Settlers : Submit(s, c)
  BY <1>2 DEF Submit, Comes
<1> QED
  BY <1>1, <1>2

(* The steps of the system, by what they concern.                              *)
LEMMA Cases ==
  ASSUME TypeInv, [Next]_vars
  PROVE  \/ \E k \in Keys, c \in Charges, h \in Hashes : IssueCharge(k, c, h)
         \/ \E c \in Charges : Pay(c) \/ Spend(c)
         \/ \E s, c, e : Comes(s, c, e)
         \/ \E s \in Settlers : Acquire(s) \/ Lookup(s) \/ Cancel(s) \/ VerifyFails(s)
         \/ \E s \in Settlers : CheckQuote(s) \/ Mint(s) \/ MintInterrupted(s) \/ Receive(s)
         \/ \E s \in Settlers : Credit(s) \/ Notify(s) \/ Cleanup(s) \/ Unlock(s)
         \/ \E s \in Settlers : Drop(s)
         \/ Crash
         \/ UNCHANGED vars
BY WhoComes DEF Next, Call, Provider

LEMMA TypeStep == TypeInv /\ [Next]_vars => TypeInv'
<1> SUFFICES ASSUME TypeInv, [Next]_vars PROVE TypeInv'
  OBVIOUS
<1>1. ASSUME NEW s, NEW c, NEW e, Comes(s, c, e) PROVE TypeInv'
  BY <1>1, EntryTypes DEF Comes
<1> QED
  BY <1>1, Cases, IssueTypes, PaySpendTypes, WaitTypes, MintTypes, BooksTypes, DropTypes, CrashTypes,
     StutterTypes

(* Every store, call, lock and proof of the settlement path keeps to its type, *)
(* a fresh lock included (settle_charge, settle_inner).                        *)
THEOREM SettlementTypesSafe == Spec => []TypeOK
<1>1. TypeInv => TypeOK
  BY DEF TypeInv
<1> QED
  BY <1>1, SettleInit, TypeStep, PTL DEF Spec

-----------------------------------------------------------------------------
(* The lock.  A call inside owns the mutex it refers to, and until it leaves   *)
(* the entry of its charge is that mutex: so two calls inside for one charge   *)
(* would own one mutex.  The entry goes only when nobody else refers to it.    *)
Holding == Inside \cup {"cleanup", "unlock"}
Relying == Inside \cup {"wait", "cleanup"}

LockInv ==
  /\ \A s \in Settlers : pc[s] \in Holding => owner[lock[s]] = s
  /\ \A s \in Settlers : pc[s] \in Relying => settle_locks[charge[s]] = lock[s]

LEMMA LockInit == Init => LockInv
BY DEF Init, LockInv, Holding, Relying, Inside

LEMMA LockExcludes == ASSUME TypeInv, LockInv PROVE OneSettlerPerCharge
BY DEF LockInv, OneSettlerPerCharge, Holding, Relying, Inside

LEMMA LockEntry ==
  ASSUME TypeInv, LockInv, NEW s, NEW c, NEW e, Comes(s, c, e) PROVE LockInv'
<1>1. s \in Settlers /\ c \in Charges /\ pc[s] = "idle" /\ LockFor(c) \in Locks
  BY FreshLockIsFresh DEF Comes, settle_charge, LockFor, TypeInv, TypeOK
<1>2. /\ charge' = [charge EXCEPT ![s] = c] /\ lock' = [lock EXCEPT ![s] = LockFor(c)]
      /\ settle_locks' = [settle_locks EXCEPT ![c] = LockFor(c)]
      /\ \/ pc' = [pc EXCEPT ![s] = "wait"] /\ owner' = owner
         \/ /\ pc' = [pc EXCEPT ![s] = "lookup"] /\ owner[LockFor(c)] = NoSettler
            /\ owner' = [owner EXCEPT ![LockFor(c)] = s]
  BY DEF Comes, settle_charge, Goto, Free
<1>3. settle_locks[c] \in {NoLock, LockFor(c)}
  BY DEF LockFor
<1> HIDE DEF LockFor
<1>4. ASSUME NEW t \in Settlers, pc'[t] \in Holding PROVE owner'[lock'[t]] = t
  BY <1>1, <1>2, <1>4, SettlementAssumption
     DEF TypeInv, TypeOK, Placed, LockInv, Holding, Inside
<1>5. ASSUME NEW t \in Settlers, pc'[t] \in Relying PROVE settle_locks'[charge'[t]] = lock'[t]
  <2>1. CASE t = s
    BY <1>1, <1>2, <2>1 DEF TypeInv, TypeOK
  <2>2. CASE t # s
    <3>1. pc[t] \in Relying /\ charge'[t] = charge[t] /\ lock'[t] = lock[t] /\ pc[t] # "idle"
      BY <1>2, <1>5, <2>2 DEF TypeInv, TypeOK, Relying, Inside
    <3>2. settle_locks[charge[t]] = lock[t] /\ lock[t] \in Locks /\ charge[t] \in Charges
      BY <3>1 DEF LockInv, TypeInv, Placed
    <3> QED
      BY <1>1, <1>2, <1>3, <3>1, <3>2, SettlementAssumption DEF TypeInv, TypeOK
  <2> QED
    BY <2>1, <2>2
<1> QED
  BY <1>4, <1>5 DEF LockInv

LEMMA LockAcquire == ASSUME TypeInv, LockInv, NEW s \in Settlers, Acquire(s) PROVE LockInv'
<1>1. /\ pc[s] = "wait" /\ owner[lock[s]] = NoSettler /\ lock[s] \in Locks
      /\ pc' = [pc EXCEPT ![s] = "lookup"] /\ owner' = [owner EXCEPT ![lock[s]] = s]
      /\ UNCHANGED <<charge, lock, settle_locks>>
  BY DEF Acquire, Goto, TypeInv, Placed
<1> QED
  BY <1>1, SettlementAssumption DEF TypeInv, TypeOK, LockInv, Holding, Relying, Inside

(* A call that stays inside, or that waits no more.                            *)
LEMMA LockStays ==
  ASSUME TypeInv, LockInv, NEW s \in Settlers, NEW step, Goto(s, step),
         UNCHANGED <<charge, lock, lockVars>>,
         \/ pc[s] \in Inside /\ step \in Inside \cup {"cleanup"}
         \/ step = "drop"
  PROVE  LockInv'
BY DEF Goto, lockVars, TypeInv, TypeOK, LockInv, Holding, Relying, Inside

LEMMA LockMoves ==
  ASSUME TypeInv, LockInv, NEW s \in Settlers,
         \/ Lookup(s) \/ Cancel(s) \/ VerifyFails(s)
         \/ CheckQuote(s) \/ Mint(s) \/ MintInterrupted(s) \/ Receive(s) \/ Credit(s) \/ Notify(s)
  PROVE  LockInv'
<1>1. UNCHANGED <<charge, lock, lockVars>>
  BY DEF Lookup, Cancel, VerifyFails, CheckQuote, Mint, MintInterrupted, Receive, Credit, Notify
<1>2. \E step : /\ Goto(s, step)
                /\ \/ pc[s] \in Inside /\ step \in Inside \cup {"cleanup"}
                   \/ step = "drop"
  BY DEF Lookup, Cancel, VerifyFails, CheckQuote, Mint, MintInterrupted, Receive, Credit, Notify, Inside
<1> QED
  BY <1>1, <1>2, LockStays

(* SettleLockCleanup: a count of two is the map and this call, and no other.   *)
LEMMA OnlyOne ==
  ASSUME TypeInv, NEW s \in Settlers, NEW t \in Settlers, s # t, NEW l \in Locks,
         lock[s] = l, lock[t] = l, NEW c \in Charges, settle_locks[c] = l
  PROVE  strong_count(l) # 2
<1> DEFINE mapping == {d \in Charges : settle_locks[d] = l}
           referring == {u \in Settlers : lock[u] = l}
<1>1. IsFiniteSet(mapping) /\ IsFiniteSet(referring)
  BY SettlementAssumption, FS_Subset
<1>2. Cardinality({c}) = 1 /\ Cardinality({c}) <= Cardinality(mapping)
  <2>1. {c} \subseteq mapping
    OBVIOUS
  <2> HIDE DEF mapping
  <2> QED
    BY <1>1, <2>1, FS_Subset, FS_Singleton
<1>3. Cardinality({s, t}) = 2 /\ Cardinality({s, t}) <= Cardinality(referring)
  <2>1. {s, t} \subseteq referring
    OBVIOUS
  <2>2. IsFiniteSet({s}) /\ Cardinality({s}) = 1 /\ {s, t} = {s} \cup {t} /\ t \notin {s}
    BY FS_Singleton
  <2>3. Cardinality({s, t}) = 2
    <3>1. Cardinality({s} \cup {t}) = Cardinality({s}) + 1
      BY <2>2, FS_AddElement
    <3> QED
      BY <2>2, <3>1
  <2> DEFINE pair == {s, t}
  <2>4. pair \in SUBSET referring
    BY <2>1
  <2> HIDE DEF referring, pair
  <2>5. Cardinality(pair) <= Cardinality(referring)
    BY <1>1, <2>4, FS_Subset
  <2> QED
    BY <2>3, <2>5 DEF pair
<1>4. Cardinality(mapping) \in Nat /\ Cardinality(referring) \in Nat
  BY <1>1, FS_CardinalityType
<1>5. strong_count(l) = Cardinality(mapping) + Cardinality(referring)
  BY DEF strong_count
<1> HIDE DEF mapping, referring
<1> QED
  BY <1>2, <1>3, <1>4, <1>5

LEMMA LockCleanup == ASSUME TypeInv, LockInv, NEW s \in Settlers, Cleanup(s) PROVE LockInv'
<1>1. /\ pc[s] = "cleanup" /\ pc' = [pc EXCEPT ![s] = "unlock"] /\ UNCHANGED <<charge, lock, owner>>
      /\ \/ settle_locks' = settle_locks
         \/ /\ strong_count(lock[s]) = 2
            /\ settle_locks' = [settle_locks EXCEPT ![charge[s]] = NoLock]
  BY DEF Cleanup, Goto
<1>2. lock[s] \in Locks /\ charge[s] \in Charges /\ settle_locks[charge[s]] = lock[s]
  BY <1>1 DEF TypeInv, Placed, LockInv, Relying
<1>3. ASSUME NEW t \in Settlers, pc'[t] \in Holding PROVE owner'[lock'[t]] = t
  BY <1>1, <1>3 DEF TypeInv, TypeOK, LockInv, Holding
<1>4. ASSUME NEW t \in Settlers, pc'[t] \in Relying PROVE settle_locks'[charge'[t]] = lock'[t]
  <2>1. t # s /\ pc[t] \in Relying
    BY <1>1, <1>4 DEF TypeInv, TypeOK, Relying, Inside
  <2>2. settle_locks[charge[t]] = lock[t] /\ charge[t] \in Charges
    BY <2>1 DEF LockInv, TypeInv, Placed, Relying, Inside
  <2>3. CASE charge[t] = charge[s]
    <3>1. strong_count(lock[s]) # 2
      BY <1>2, <2>1, <2>2, <2>3, OnlyOne
    <3> QED
      BY <1>1, <2>2, <3>1
  <2>4. CASE charge[t] # charge[s]
    BY <1>1, <2>2, <2>4 DEF TypeInv, TypeOK
  <2> QED
    BY <2>3, <2>4
<1> QED
  BY <1>3, <1>4 DEF LockInv

LEMMA LockUnlock == ASSUME TypeInv, LockInv, NEW s \in Settlers, Unlock(s) PROVE LockInv'
<1>1. /\ pc[s] = "unlock" /\ pc' = [pc EXCEPT ![s] = "drop"] /\ lock[s] \in Locks
      /\ owner' = [owner EXCEPT ![lock[s]] = NoSettler] /\ UNCHANGED <<charge, lock, settle_locks>>
  BY DEF Unlock, Goto, TypeInv, Placed
<1>2. owner[lock[s]] = s
  BY <1>1 DEF LockInv, Holding
<1>3. ASSUME NEW t \in Settlers, pc'[t] \in Holding PROVE owner'[lock'[t]] = t
  <2>1. t # s /\ pc[t] \in Holding /\ lock'[t] = lock[t]
    BY <1>1, <1>3 DEF TypeInv, TypeOK, Holding, Inside
  <2>2. owner[lock[t]] = t /\ lock[t] # lock[s] /\ lock[t] \in Locks
    BY <1>2, <2>1 DEF LockInv, TypeInv, Placed, Holding, Inside
  <2> QED
    BY <1>1, <2>1, <2>2 DEF TypeInv, TypeOK
<1>4. ASSUME NEW t \in Settlers, pc'[t] \in Relying PROVE settle_locks'[charge'[t]] = lock'[t]
  BY <1>1, <1>4 DEF TypeInv, TypeOK, LockInv, Relying, Inside
<1> QED
  BY <1>3, <1>4 DEF LockInv

LEMMA LockDrop == ASSUME TypeInv, LockInv, NEW s \in Settlers, Drop(s) PROVE LockInv'
<1>1. /\ pc' = [pc EXCEPT ![s] = "idle"] /\ charge' = [charge EXCEPT ![s] = NoCharge]
      /\ lock' = [lock EXCEPT ![s] = NoLock] /\ UNCHANGED lockVars
  BY DEF Drop, Goto
<1>2. \A t \in Settlers : /\ pc'[t] \in Holding \cup Relying => t # s
                          /\ t # s => pc'[t] = pc[t] /\ charge'[t] = charge[t] /\ lock'[t] = lock[t]
  BY <1>1 DEF TypeInv, TypeOK, Holding, Relying, Inside
<1> QED
  BY <1>1, <1>2 DEF lockVars, LockInv

LEMMA LockStep == TypeInv /\ LockInv /\ [Next]_vars => LockInv'
<1> SUFFICES ASSUME TypeInv, LockInv, [Next]_vars PROVE LockInv'
  OBVIOUS
<1>1. CASE UNCHANGED <<pc, charge, lock, lockVars>>
  BY <1>1 DEF lockVars, LockInv
<1>2. CASE \/ \E k \in Keys, c \in Charges, h \in Hashes : IssueCharge(k, c, h)
           \/ \E c \in Charges : Pay(c) \/ Spend(c)
           \/ UNCHANGED vars
  BY <1>1, <1>2 DEF IssueCharge, Pay, Spend, vars, callVars
<1>3. CASE Crash
  BY <1>3 DEF Crash, LockInv, Holding, Relying, Inside
<1> QED
  BY <1>2, <1>3, Cases, LockEntry, LockAcquire, LockMoves, LockCleanup, LockUnlock, LockDrop

(* The per-charge mutex of settle_charge excludes, although SettleLockCleanup  *)
(* removes its entry while calls wait, for any number of calls and charges.    *)
THEOREM OneSettlerInside == Spec => []OneSettlerPerCharge
<1>1. Init => TypeInv /\ LockInv
  BY SettleInit, LockInit
<1>2. TypeInv /\ LockInv => OneSettlerPerCharge
  BY LockExcludes
<1> QED
  BY <1>1, <1>2, TypeStep, LockStep, PTL DEF Spec

-----------------------------------------------------------------------------
(* The books.  The row that a call found missing stays missing until the call  *)
(* itself writes it: nobody else is inside for its charge.                     *)
Unresolved == \A s \in Settlers : pc[s] \in {"verify", "mint", "credit"} => ~Resolved(charge[s])

LEMMA CreditResolves ==
  ASSUME TreasuryTypeOK, NEW c \in Charges, NEW amount \in Nat, credit_verified(c, amount)
  PROVE  /\ credit_ledger'[c] # NoRow
         /\ \A d \in Charges : d # c => credit_ledger'[d] = credit_ledger[d] /\ credited'[d] = credited[d]
         /\ credited'[c] = credited[c] \/ (~Resolved(c) /\ credited'[c] = credited[c] + amount)
<1>1. CASE Resolved(c)
  <2>1. CreditOutcome(c, amount) \notin {"Credited", "Overflow"}
    BY <1>1 DEF CreditOutcome, classify_prior
  <2> QED
    BY <1>1, <2>1 DEF credit_verified, Resolved
<1>2. CASE ~Resolved(c)
  <2>1. CreditOutcome(c, amount) \in {"Credited", "Overflow"}
    BY <1>2 DEF CreditOutcome
  <2>2. TreasuryTypeOK' /\ balance \in Nat
    BY CreditTypes, TreasuryAssumption DEF TreasuryTypeOK, Sats
  <2>3. credit_ledger'[c] \in CreditRecord
    <3>1. \/ /\ credit_ledger' = [credit_ledger EXCEPT ![c] =
                  [proof |-> "credit-verified", after |-> balance + amount]]
             /\ balance + amount \in Sats
          \/ /\ credit_ledger' = [credit_ledger EXCEPT ![c] =
                  [proof |-> "credit-terminal-overflow", after |-> balance]]
             /\ balance \in Sats
      BY <1>2, <2>1, <2>2 DEF credit_verified, TreasuryTypeOK, CreditOutcome, Sats
    <3> QED
      BY <3>1 DEF CreditRecord, TreasuryTypeOK
  <2>4. credit_ledger'[c] # NoRow
    BY <2>3, NoRowAssumption
  <2> QED
    BY <1>2, <2>1, <2>4 DEF credit_verified, TreasuryTypeOK
<1> QED
  BY <1>1, <1>2

LEMMA UnresolvedStep ==
  ASSUME TypeInv, OneSettlerPerCharge, Unresolved, [Next]_vars PROVE Unresolved'
<1>1. CASE UNCHANGED <<pc, charge, credit_ledger>>
  BY <1>1 DEF Unresolved, Resolved
<1>2. CASE \/ \E k \in Keys, c \in Charges, h \in Hashes : IssueCharge(k, c, h)
           \/ \E c \in Charges : Pay(c) \/ Spend(c)
           \/ UNCHANGED vars
  BY <1>1, <1>2 DEF IssueCharge, record_charge_atomic, Pay, Spend, vars, callVars, treasuryVars, stores
<1>3. ASSUME NEW s \in Settlers, NEW step, Goto(s, step), UNCHANGED credit_ledger,
             \A t \in Settlers : t # s => charge'[t] = charge[t],
             step \in {"verify", "mint", "credit"} => charge' = charge /\ ~Resolved(charge[s])
      PROVE  Unresolved'
  BY <1>3 DEF Goto, Unresolved, Resolved, TypeInv, TypeOK
<1>4. ASSUME NEW s, NEW c, NEW e, Comes(s, c, e) PROVE Unresolved'
  <2>1. /\ s \in Settlers
        /\ Goto(s, "lookup") \/ Goto(s, "wait")
        /\ \A t \in Settlers : t # s => charge'[t] = charge[t]
        /\ UNCHANGED credit_ledger
    BY <1>4 DEF Comes, settle_charge, treasuryVars, stores, TypeInv, TypeOK
  <2> QED
    BY <1>3, <1>4, <2>1 DEF Comes
<1>5. ASSUME NEW s \in Settlers, Acquire(s) \/ Lookup(s) \/ Cancel(s) \/ VerifyFails(s) PROVE Unresolved'
  <2>1. UNCHANGED <<charge, credit_ledger>>
    BY <1>5 DEF Acquire, Lookup, Cancel, VerifyFails, treasuryVars, stores
  <2>2. \E step : Goto(s, step) /\ (step \in {"verify", "mint", "credit"} => ~Resolved(charge[s]))
    BY <1>5 DEF Acquire, Lookup, Cancel, VerifyFails
  <2> QED
    BY <1>3, <2>1, <2>2
<1>6. ASSUME NEW s \in Settlers, CheckQuote(s) \/ Mint(s) \/ MintInterrupted(s) \/ Receive(s)
      PROVE  Unresolved'
  <2>1. UNCHANGED <<charge, credit_ledger>> /\ pc[s] \in {"verify", "mint"} /\ \E step : Goto(s, step)
    BY <1>6 DEF CheckQuote, Mint, MintInterrupted, Receive, treasuryVars, stores
  <2>2. ~Resolved(charge[s])
    BY <2>1 DEF Unresolved
  <2> QED
    BY <1>3, <2>1, <2>2
<1>7. ASSUME NEW s \in Settlers, Credit(s) PROVE Unresolved'
  <2>1. /\ pc[s] = "credit" /\ credit_verified(charge[s], verified[s]) /\ charge' = charge
        /\ pc' = [pc EXCEPT ![s] = "notify"] \/ pc' = [pc EXCEPT ![s] = "cleanup"]
    BY <1>7 DEF Credit, Goto
  <2>2. charge[s] \in Charges /\ verified[s] \in Nat /\ TreasuryTypeOK
    BY <2>1 DEF TypeInv, TypeOK, Placed
  <2>3. ASSUME NEW t \in Settlers, pc'[t] \in {"verify", "mint", "credit"}
        PROVE  credit_ledger'[charge'[t]] = NoRow
    <3>1. t # s /\ pc[t] \in {"verify", "mint", "credit"}
      BY <2>1, <2>3 DEF TypeInv, TypeOK
    <3>2. charge[t] # charge[s] /\ charge[t] \in Charges /\ credit_ledger[charge[t]] = NoRow
      BY <2>1, <3>1 DEF OneSettlerPerCharge, Inside, TypeInv, Placed, Unresolved, Resolved
    <3> QED
      BY <2>1, <2>2, <3>2, CreditResolves
  <2> QED
    BY <2>3 DEF Unresolved, Resolved
<1>8. ASSUME NEW s \in Settlers, Notify(s) \/ Cleanup(s) \/ Unlock(s) \/ Drop(s) PROVE Unresolved'
  <2>1. UNCHANGED credit_ledger /\ \A t \in Settlers : t # s => charge'[t] = charge[t]
    BY <1>8 DEF Notify, Cleanup, Unlock, Drop, treasuryVars, stores, TypeInv, TypeOK
  <2>2. \E step : Goto(s, step) /\ step \notin {"verify", "mint", "credit"}
    BY <1>8 DEF Notify, Cleanup, Unlock, Drop
  <2> QED
    BY <1>3, <2>1, <2>2
<1>9. CASE Crash
  BY <1>9 DEF Crash, Unresolved
<1> QED
  BY <1>2, <1>4, <1>5, <1>6, <1>7, <1>8, <1>9, Cases

(* A redemption, or the proofs of one, comes to the wallet in three steps.     *)
LEMMA WhoGains ==
  ASSUME TypeInv, [Next]_vars
  PROVE  \/ UNCHANGED <<minted, redeemed>>
         \/ \E s \in Settlers : /\ Mint(s) \/ MintInterrupted(s) \/ Receive(s)
                                /\ pc[s] \in {"verify", "mint"} /\ charge[s] \in Charges /\ Gain(charge[s])
<1>1. ASSUME NEW s \in Settlers, Mint(s) \/ MintInterrupted(s) \/ Receive(s)
      PROVE  /\ pc[s] \in {"verify", "mint"} /\ charge[s] \in Charges
             /\ Gain(charge[s]) \/ UNCHANGED <<minted, redeemed>>
  BY <1>1 DEF Mint, MintInterrupted, Receive, TypeInv, Placed
<1>2. ASSUME NEW s \in Settlers, CheckQuote(s) \/ Credit(s) \/ Notify(s) \/ Cleanup(s) \/ Unlock(s) \/ Drop(s)
      PROVE  UNCHANGED <<minted, redeemed>>
  BY <1>2 DEF CheckQuote, Credit, Notify, Cleanup, Unlock, Drop, mintVars
<1>3. ASSUME NEW s \in Settlers, Acquire(s) \/ Lookup(s) \/ Cancel(s) \/ VerifyFails(s)
      PROVE  UNCHANGED <<minted, redeemed>>
  BY <1>3 DEF Acquire, Lookup, Cancel, VerifyFails, mintVars
<1>4. CASE \/ \E k \in Keys, c \in Charges, h \in Hashes : IssueCharge(k, c, h)
           \/ \E c \in Charges : Pay(c) \/ Spend(c)
           \/ \E s, c, e : Comes(s, c, e)
           \/ Crash
           \/ UNCHANGED vars
  BY <1>4 DEF IssueCharge, Pay, Spend, Comes, settle_charge, Crash, vars, mintVars
<1> QED
  BY <1>1, <1>2, <1>3, <1>4, Cases

SettleInv == TypeInv /\ LockInv /\ Unresolved

LEMMA SettleInvInit == Init => SettleInv
BY SettleInit, LockInit DEF Init, SettleInv, Unresolved

LEMMA SettleInvStep == SettleInv /\ [Next]_vars => SettleInv'
BY TypeStep, LockStep, LockExcludes, UnresolvedStep DEF SettleInv

LEMMA WalletUntouchedStep ==
  ASSUME SettleInv, [Next]_vars, NEW c \in Charges, Resolved(c)
  PROVE  redeemed'[c] = redeemed[c]
<1>1. ASSUME NEW s \in Settlers, pc[s] \in {"verify", "mint"}, charge[s] \in Charges, Gain(charge[s])
      PROVE  redeemed'[c] = redeemed[c]
  <2>1. charge[s] # c
    BY <1>1 DEF SettleInv, Unresolved
  <2> QED
    BY <1>1, <2>1 DEF Gain, SettleInv, TypeInv, TypeOK
<1> QED
  BY <1>1, WhoGains DEF SettleInv

(* State first, inside the lock: once the charge is on the books, no call      *)
(* redeems for it, whatever it raced with (settle_inner).                      *)
THEOREM ResolvedIsDeadToWallet == Spec => ResolvedWalletUntouched
<1>1. SettleInv /\ [Next]_vars => [\A c \in Charges : Resolved(c) => redeemed'[c] = redeemed[c]]_vars
  BY WalletUntouchedStep
<1> QED
  BY <1>1, SettleInvInit, SettleInvStep, PTL DEF Spec, ResolvedWalletUntouched

-----------------------------------------------------------------------------
(* What is credited was minted: a call about to credit has seen the proofs.    *)
Backing ==
  /\ \A c \in Charges : /\ held[c] <= minted[c] /\ credited[c] <= minted[c]
                        /\ ~Resolved(c) => credited[c] = 0
  /\ \A s \in Settlers : pc[s] = "credit" => verified[s] <= minted[charge[s]]

LEMMA MintedGrows ==
  ASSUME TypeInv, [Next]_vars, NEW c \in Charges
  PROVE  minted'[c] >= minted[c] /\ minted[c] \in Nat /\ minted'[c] \in Nat
<1>1. minted[c] \in Nat /\ minted'[c] \in Nat /\ Price \in Nat
  BY TypeStep, SettlementAssumption DEF TypeInv, TypeOK
<1> QED
  BY <1>1, WhoGains DEF Gain, TypeInv, TypeOK

LEMMA HeldStep ==
  ASSUME TypeInv, Backing, [Next]_vars, NEW c \in Charges PROVE held'[c] <= minted'[c]
<1>1. /\ minted'[c] >= minted[c] /\ minted[c] \in Nat /\ minted'[c] \in Nat /\ held[c] \in Nat
      /\ held'[c] \in Nat /\ held[c] <= minted[c]
  BY MintedGrows, TypeStep DEF TypeInv, TypeOK, Backing
<1>2. CASE held' = held
  BY <1>1, <1>2
<1>3. ASSUME NEW d \in Charges, Gain(d) PROVE held'[c] <= minted'[c]
  BY <1>1, <1>3, SettlementAssumption DEF Gain, TypeInv, TypeOK
<1>4. ASSUME NEW d \in Charges, Spend(d) PROVE held'[c] <= minted'[c]
  <2>1. PICK left \in 0..(held[d] - 1) : held' = [held EXCEPT ![d] = left]
    BY <1>4 DEF Spend
  <2>2. held'[c] <= held[c]
    BY <1>1, <2>1 DEF TypeInv, TypeOK
  <2> QED
    BY <1>1, <2>2
<1>5. (\E d \in Charges : Gain(d) \/ Spend(d)) \/ held' = held
  <2>1. ASSUME NEW s \in Settlers, Mint(s) \/ MintInterrupted(s) \/ Receive(s)
        PROVE  (\E d \in Charges : Gain(d)) \/ held' = held
    BY <2>1 DEF Mint, MintInterrupted, Receive, TypeInv, Placed
  <2>2. ASSUME NEW s \in Settlers, \/ CheckQuote(s) \/ Credit(s) \/ Notify(s) \/ Cleanup(s) \/ Unlock(s)
                                   \/ Drop(s) \/ Acquire(s) \/ Lookup(s) \/ Cancel(s) \/ VerifyFails(s)
        PROVE  held' = held
    BY <2>2 DEF CheckQuote, Credit, Notify, Cleanup, Unlock, Drop, Acquire, Lookup, Cancel, VerifyFails,
                mintVars
  <2>3. CASE \/ \E k \in Keys, d \in Charges, h \in Hashes : IssueCharge(k, d, h)
             \/ \E d \in Charges : Pay(d)
             \/ \E s, d, e : Comes(s, d, e)
             \/ Crash
             \/ UNCHANGED vars
    BY <2>3 DEF IssueCharge, Pay, Comes, settle_charge, Crash, vars, mintVars
  <2> QED
    BY <2>1, <2>2, <2>3, Cases
<1> QED
  BY <1>2, <1>3, <1>4, <1>5

LEMMA WhoCredits ==
  ASSUME TypeInv, [Next]_vars
  PROVE  UNCHANGED <<credit_ledger, credited>> \/ \E s \in Settlers : Credit(s)
<1>1. ASSUME NEW s \in Settlers,
             \/ Acquire(s) \/ Lookup(s) \/ Cancel(s) \/ VerifyFails(s)
             \/ CheckQuote(s) \/ Mint(s) \/ MintInterrupted(s) \/ Receive(s)
             \/ Notify(s) \/ Cleanup(s) \/ Unlock(s) \/ Drop(s)
      PROVE  UNCHANGED <<credit_ledger, credited>>
  BY <1>1 DEF Acquire, Lookup, Cancel, VerifyFails, CheckQuote, Mint, MintInterrupted, Receive,
              Notify, Cleanup, Unlock, Drop, treasuryVars, stores
<1>2. CASE \/ \E k \in Keys, d \in Charges, h \in Hashes : IssueCharge(k, d, h)
           \/ \E d \in Charges : Pay(d) \/ Spend(d)
           \/ \E s, d, e : Comes(s, d, e)
           \/ Crash
           \/ UNCHANGED vars
  BY <1>2 DEF IssueCharge, record_charge_atomic, Pay, Spend, Comes, settle_charge, Crash, Open, vars,
              treasuryVars, stores
<1> QED
  BY <1>1, <1>2, Cases

LEMMA CreditedStep ==
  ASSUME SettleInv, Backing, [Next]_vars, NEW c \in Charges
  PROVE  credited'[c] <= minted'[c] /\ (credit_ledger'[c] = NoRow => credited'[c] = 0)
<1>1. /\ minted'[c] >= minted[c] /\ minted[c] \in Nat /\ minted'[c] \in Nat /\ credited[c] \in Nat
      /\ credited[c] <= minted[c] /\ (credit_ledger[c] = NoRow => credited[c] = 0)
  BY MintedGrows DEF SettleInv, TypeInv, TypeOK, TreasuryTypeOK, Backing, Resolved
<1>2. CASE UNCHANGED <<credit_ledger, credited>>
  BY <1>1, <1>2
<1>3. ASSUME NEW s \in Settlers, Credit(s)
      PROVE  credited'[c] <= minted'[c] /\ (credit_ledger'[c] = NoRow => credited'[c] = 0)
  <2>1. /\ charge[s] \in Charges /\ verified[s] \in Nat /\ TreasuryTypeOK
        /\ credit_verified(charge[s], verified[s]) /\ verified[s] <= minted[charge[s]]
    BY <1>3 DEF Credit, SettleInv, TypeInv, TypeOK, Placed, Backing
  <2>2. CASE c = charge[s]
    BY <1>1, <2>1, <2>2, CreditResolves DEF Resolved
  <2>3. CASE c # charge[s]
    BY <1>1, <2>1, <2>3, CreditResolves
  <2> QED
    BY <2>2, <2>3
<1> QED
  BY <1>2, <1>3, WhoCredits DEF SettleInv

(* A call gets to credit from the provider, with what the wallet holds now.    *)
LEMMA VerifiedStep ==
  ASSUME SettleInv, Backing, [Next]_vars, NEW t \in Settlers, pc'[t] = "credit"
  PROVE  verified'[t] <= minted'[charge'[t]]
<1>1. CASE pc[t] = "credit" /\ verified'[t] = verified[t] /\ charge'[t] = charge[t]
  <2>1. charge[t] \in Charges /\ verified[t] \in Nat /\ verified[t] <= minted[charge[t]]
    BY <1>1 DEF SettleInv, TypeInv, TypeOK, Placed, Backing
  <2> QED
    BY <1>1, <2>1, MintedGrows DEF SettleInv
<1>2. CASE CheckQuote(t)
  <2>1. charge[t] \in Charges /\ charge'[t] = charge[t] /\ verified'[t] = Recoverable(charge[t])
         /\ minted' = minted
    BY <1>2 DEF CheckQuote, mintVars, SettleInv, TypeInv, TypeOK, Placed
  <2>2. /\ Recoverable(charge[t]) \in {0, held[charge[t]]} /\ held[charge[t]] \in Nat
        /\ minted[charge[t]] \in Nat /\ held[charge[t]] <= minted[charge[t]]
    BY <2>1 DEF Recoverable, SettleInv, TypeInv, TypeOK, Backing
  <2> QED
    BY <2>1, <2>2
<1>3. CASE Mint(t) \/ Receive(t)
  <2>1. charge[t] \in Charges /\ charge'[t] = charge[t] /\ verified'[t] = Price /\ Gain(charge[t])
    BY <1>3 DEF Mint, Receive, Goto, SettleInv, TypeInv, TypeOK, Placed
  <2> QED
    BY <2>1, SettlementAssumption DEF Gain, SettleInv, TypeInv, TypeOK
<1>4. \/ pc[t] = "credit" /\ verified'[t] = verified[t] /\ charge'[t] = charge[t]
      \/ CheckQuote(t) \/ Mint(t) \/ Receive(t)
  <2>1. ASSUME NEW s \in Settlers, Acquire(s) \/ Lookup(s) \/ Cancel(s) \/ VerifyFails(s)
        PROVE  pc[t] = "credit" /\ verified'[t] = verified[t] /\ charge'[t] = charge[t]
    <3>1. \E step : Goto(s, step) /\ step # "credit"
      BY <2>1 DEF Acquire, Lookup, Cancel, VerifyFails
    <3> QED
      BY <2>1, <3>1 DEF Acquire, Lookup, Cancel, VerifyFails, Goto, SettleInv, TypeInv, TypeOK
  <2>2. ASSUME NEW s \in Settlers, CheckQuote(s) \/ Mint(s) \/ MintInterrupted(s) \/ Receive(s), s # t
        PROVE  pc[t] = "credit" /\ verified'[t] = verified[t] /\ charge'[t] = charge[t]
    BY <2>2 DEF CheckQuote, Mint, MintInterrupted, Receive, Goto, SettleInv, TypeInv, TypeOK
  <2>3. ~MintInterrupted(t)
    BY DEF MintInterrupted, Goto, SettleInv, TypeInv, TypeOK
  <2>4. ASSUME NEW s \in Settlers, Credit(s) \/ Notify(s) \/ Cleanup(s) \/ Unlock(s) \/ Drop(s)
        PROVE  pc[t] = "credit" /\ verified'[t] = verified[t] /\ charge'[t] = charge[t]
    <3>1. (\E step : Goto(s, step) /\ step # "credit") /\ t # s
      BY <2>4 DEF Credit, Notify, Cleanup, Unlock, Drop, Goto, SettleInv, TypeInv, TypeOK
    <3> QED
      BY <2>4, <3>1 DEF Credit, Notify, Cleanup, Unlock, Drop, Goto, SettleInv, TypeInv, TypeOK
  <2>5. ASSUME NEW s, NEW c, NEW e, Comes(s, c, e)
        PROVE  pc[t] = "credit" /\ verified'[t] = verified[t] /\ charge'[t] = charge[t]
    BY <2>5 DEF Comes, settle_charge, Goto, SettleInv, TypeInv, TypeOK
  <2>6. CASE \/ \E k \in Keys, c \in Charges, h \in Hashes : IssueCharge(k, c, h)
             \/ \E c \in Charges : Pay(c) \/ Spend(c)
             \/ UNCHANGED vars
    BY <2>6 DEF IssueCharge, Pay, Spend, vars, callVars
  <2>7. ~Crash
    BY DEF Crash
  <2> QED
    BY <2>1, <2>2, <2>3, <2>4, <2>5, <2>6, <2>7, Cases DEF SettleInv
<1> QED
  BY <1>1, <1>2, <1>3, <1>4

LEMMA BackingStep == SettleInv /\ Backing /\ [Next]_vars => Backing'
BY HeldStep, CreditedStep, VerifiedStep DEF Backing, Resolved, SettleInv

LEMMA BackingInit == Init => Backing
BY DEF Init, TreasuryInit, Backing

(* No phantom sats: a settlement credits what came to the wallet for that      *)
(* charge, also on the recovery path (held_unspent_for_quote).                 *)
THEOREM CreditIsBacked == Spec => []CreditedWasMinted
<1>1. Backing => CreditedWasMinted
  BY DEF Backing, CreditedWasMinted
<1> QED
  BY <1>1, SettleInvInit, SettleInvStep, BackingInit, BackingStep, PTL DEF Spec

-----------------------------------------------------------------------------
(* The notice.  A call on its way to announce a payment is the one that has    *)
(* just credited it, with the sats it credited, and nothing is announced yet.  *)
NoticeAt(s) ==
  pc[s] = "notify" =>
    /\ Resolved(charge[s])
    /\ inbox[charge[s]] = 0 /\ credited[charge[s]] = verified[s]

NoticeInv == NoticeIsCredit /\ \A s \in Settlers : NoticeAt(s)

LEMMA WhoNotifies ==
  ASSUME TypeInv, [Next]_vars
  PROVE  inbox' = inbox \/ Crash \/ \E s \in Settlers : Notify(s)
<1>1. ASSUME NEW s \in Settlers,
             \/ Acquire(s) \/ Lookup(s) \/ Cancel(s) \/ VerifyFails(s)
             \/ CheckQuote(s) \/ Mint(s) \/ MintInterrupted(s) \/ Receive(s)
             \/ Credit(s) \/ Cleanup(s) \/ Unlock(s) \/ Drop(s)
      PROVE  inbox' = inbox
  BY <1>1 DEF Acquire, Lookup, Cancel, VerifyFails, CheckQuote, Mint, MintInterrupted, Receive,
              Credit, Cleanup, Unlock, Drop
<1>2. CASE \/ \E k \in Keys, d \in Charges, h \in Hashes : IssueCharge(k, d, h)
           \/ \E d \in Charges : Pay(d) \/ Spend(d)
           \/ \E s, d, e : Comes(s, d, e)
           \/ UNCHANGED vars
  BY <1>2 DEF IssueCharge, Pay, Spend, Comes, settle_charge, vars
<1> QED
  BY <1>1, <1>2, Cases

\* A call gets to the notice by its own credit only.
LEMMA NoticeFromCredit ==
  ASSUME TypeInv, [Next]_vars, NEW t \in Settlers, pc'[t] = "notify", ~Credit(t)
  PROVE  pc[t] = "notify" /\ verified'[t] = verified[t] /\ charge'[t] = charge[t]
<1> USE DEF Goto, TypeInv, TypeOK
<1>1. ASSUME NEW s \in Settlers, Acquire(s) \/ Lookup(s) \/ Cancel(s) \/ VerifyFails(s)
      PROVE  pc[t] = "notify" /\ verified'[t] = verified[t] /\ charge'[t] = charge[t]
  <2>1. \E step : Goto(s, step) /\ step # "notify"
    BY <1>1 DEF Acquire, Lookup, Cancel, VerifyFails
  <2> QED
    BY <1>1, <2>1 DEF Acquire, Lookup, Cancel, VerifyFails
<1>2. ASSUME NEW s \in Settlers, CheckQuote(s) \/ Mint(s) \/ MintInterrupted(s) \/ Receive(s)
      PROVE  pc[t] = "notify" /\ verified'[t] = verified[t] /\ charge'[t] = charge[t]
  <2>1. (\E step : Goto(s, step) /\ step # "notify") /\ t # s
    BY <1>2 DEF CheckQuote, Mint, MintInterrupted, Receive
  <2> QED
    BY <1>2, <2>1 DEF CheckQuote, Mint, MintInterrupted, Receive
<1>3. ASSUME NEW s \in Settlers, Credit(s)
      PROVE  pc[t] = "notify" /\ verified'[t] = verified[t] /\ charge'[t] = charge[t]
  BY <1>3 DEF Credit
<1>4. ASSUME NEW s \in Settlers, Notify(s) \/ Cleanup(s) \/ Unlock(s) \/ Drop(s)
      PROVE  pc[t] = "notify" /\ verified'[t] = verified[t] /\ charge'[t] = charge[t]
  <2>1. (\E step : Goto(s, step) /\ step # "notify") /\ t # s
    BY <1>4 DEF Notify, Cleanup, Unlock, Drop
  <2> QED
    BY <1>4, <2>1 DEF Notify, Cleanup, Unlock, Drop
<1>5. ASSUME NEW s, NEW c, NEW e, Comes(s, c, e)
      PROVE  pc[t] = "notify" /\ verified'[t] = verified[t] /\ charge'[t] = charge[t]
  BY <1>5 DEF Comes, settle_charge
<1>6. CASE \/ \E k \in Keys, c \in Charges, h \in Hashes : IssueCharge(k, c, h)
           \/ \E c \in Charges : Pay(c) \/ Spend(c)
           \/ UNCHANGED vars
  BY <1>6 DEF IssueCharge, Pay, Spend, vars, callVars
<1>7. ~Crash
  BY DEF Crash
<1> QED
  BY <1>1, <1>2, <1>3, <1>4, <1>5, <1>6, <1>7, Cases

LEMMA NoticeStep ==
  ASSUME SettleInv, Backing, NoticeInv, [Next]_vars
  PROVE  NoticeInv'
<1>1. CASE \E s \in Settlers : Notify(s)
  <2>1. PICK s \in Settlers : Notify(s)
    BY <1>1
  <2>2. /\ pc[s] = "notify" /\ charge[s] \in Charges /\ verified[s] \in Nat
        /\ inbox' = [inbox EXCEPT ![charge[s]] = @ + verified[s]]
        /\ pc' = [pc EXCEPT ![s] = "cleanup"]
        /\ UNCHANGED <<charge, verified, credited, credit_ledger>>
    BY <2>1 DEF Notify, Goto, treasuryVars, stores, SettleInv, TypeInv, TypeOK, Placed
  <2>3. inbox'[charge[s]] = credited[charge[s]]
    BY <2>1, <2>2 DEF NoticeInv, NoticeAt, SettleInv, TypeInv, TypeOK
  <2>4. NoticeIsCredit'
    BY <2>2, <2>3 DEF NoticeInv, NoticeIsCredit, SettleInv, TypeInv, TypeOK
  <2>5. ASSUME NEW t \in Settlers, pc'[t] = "notify"
        PROVE  t # s /\ pc[t] = "notify" /\ charge[t] # charge[s] /\ charge[t] \in Charges
    <3>1. t # s /\ pc[t] = "notify"
      BY <2>2, <2>5 DEF SettleInv, TypeInv, TypeOK
    <3>2. OneSettlerPerCharge
      BY LockExcludes DEF SettleInv
    <3> QED
      BY <2>2, <3>1, <3>2 DEF OneSettlerPerCharge, Inside, SettleInv, TypeInv, Placed
  <2>6. \A t \in Settlers : NoticeAt(t)'
    BY <2>2, <2>5 DEF NoticeAt, NoticeInv, Resolved, SettleInv, TypeInv, TypeOK
  <2> QED
    BY <2>4, <2>6 DEF NoticeInv
<1>2. CASE Crash
  <2>1. /\ inbox' = [c \in Charges |-> 0] /\ pc' = [s \in Settlers |-> "idle"]
    BY <1>2 DEF Crash
  <2> QED
    BY <2>1 DEF NoticeInv, NoticeIsCredit, NoticeAt
<1>3. CASE \E s \in Settlers : Credit(s)
  <2>1. PICK s \in Settlers : Credit(s)
    BY <1>3
  <2>2. /\ pc[s] = "credit" /\ charge[s] \in Charges /\ verified[s] \in Nat /\ TreasuryTypeOK
        /\ credit_verified(charge[s], verified[s])
        /\ pc' = [pc EXCEPT ![s] = IF CreditOutcome(charge[s], verified[s]) = "Credited"
                                     THEN "notify" ELSE "cleanup"]
        /\ UNCHANGED <<charge, verified, inbox>>
    BY <2>1 DEF Credit, Goto, SettleInv, TypeInv, TypeOK, Placed
  <2>3. ~Resolved(charge[s]) /\ credited[charge[s]] = 0 /\ inbox[charge[s]] = 0
    BY <2>2 DEF SettleInv, Unresolved, Backing, NoticeInv, NoticeIsCredit
  <2>4. /\ credit_ledger'[charge[s]] # NoRow
        /\ \A d \in Charges : d # charge[s] =>
             credit_ledger'[d] = credit_ledger[d] /\ credited'[d] = credited[d]
    BY <2>2, CreditResolves
  <2>5. NoticeIsCredit'
    BY <2>2, <2>3, <2>4 DEF NoticeInv, NoticeIsCredit
  <2>6. ASSUME NEW t \in Settlers, pc'[t] = "notify"
        PROVE  NoticeAt(t)'
    <3>1. CASE t = s
      <4>1. CreditOutcome(charge[s], verified[s]) = "Credited"
        BY <2>2, <2>6, <3>1 DEF SettleInv, TypeInv, TypeOK
      <4>2. credited'[charge[s]] = verified[s]
        BY <2>2, <2>3, <4>1 DEF credit_verified, TreasuryTypeOK
      <4> QED
        BY <2>2, <2>3, <2>4, <3>1, <4>2 DEF NoticeAt, Resolved
    <3>2. CASE t # s
      <4>1. pc[t] = "notify"
        BY <2>2, <2>6, <3>2 DEF SettleInv, TypeInv, TypeOK
      <4>2. OneSettlerPerCharge
        BY LockExcludes DEF SettleInv
      <4>3. charge[t] # charge[s] /\ charge[t] \in Charges
        BY <2>2, <3>2, <4>1, <4>2 DEF OneSettlerPerCharge, Inside, SettleInv, TypeInv, Placed
      <4> QED
        BY <2>2, <2>4, <4>1, <4>3 DEF NoticeInv, NoticeAt, Resolved
    <3> QED
      BY <3>1, <3>2
  <2>7. \A t \in Settlers : NoticeAt(t)'
    BY <2>6 DEF NoticeAt
  <2> QED
    BY <2>5, <2>7 DEF NoticeInv
<1>4. CASE inbox' = inbox /\ ~(\E s \in Settlers : Credit(s))
  <2>1. UNCHANGED <<credit_ledger, credited>>
    BY <1>4, WhoCredits DEF SettleInv
  <2>2. ASSUME NEW t \in Settlers, pc'[t] = "notify"
        PROVE  NoticeAt(t)'
    <3>1. pc[t] = "notify" /\ verified'[t] = verified[t] /\ charge'[t] = charge[t]
      BY <1>4, <2>2, NoticeFromCredit DEF SettleInv
    <3> QED
      BY <1>4, <2>1, <3>1 DEF NoticeInv, NoticeAt, Resolved
  <2>3. \A t \in Settlers : NoticeAt(t)'
    BY <2>2 DEF NoticeAt
  <2> QED
    BY <1>4, <2>1, <2>3 DEF NoticeInv, NoticeIsCredit
<1> QED
  BY <1>1, <1>2, <1>3, <1>4, WhoNotifies DEF SettleInv

(* The genome hears of a payment at most once, and of exactly the sats that    *)
(* were credited, whatever calls race for the charge and wherever a crash      *)
(* falls between the credit and the notice (settle_charge).                    *)
THEOREM NoticesAreCredits == Spec => []NoticeIsCredit
<1>1. Init => NoticeInv
  BY DEF Init, TreasuryInit, NoticeInv, NoticeIsCredit, NoticeAt
<1>2. NoticeInv => NoticeIsCredit
  BY DEF NoticeInv
<1> QED
  BY <1>1, <1>2, SettleInvInit, SettleInvStep, BackingInit, BackingStep, NoticeStep, PTL DEF Spec

-----------------------------------------------------------------------------
(* A redemption is on the books, or about to be, or a call or the daemon was   *)
(* cut off after it.                                                           *)
Counted(c) == Resolved(c) \/ \E s \in Settlers : pc[s] = "credit" /\ charge[s] = c

Redemptions ==
  \A c \in Charges : redeemed[c] <= (IF Counted(c) THEN 1 ELSE 0) + crashes + cancels

LEMMA AtCredit ==
  ASSUME TypeInv, [Next]_vars, NEW s \in Settlers, pc[s] = "credit"
  PROVE  (pc'[s] = "credit" /\ charge'[s] = charge[s]) \/ Credit(s) \/ Crash
<1>1. ASSUME NEW t \in Settlers,
             \/ Acquire(t) \/ Lookup(t) \/ Cancel(t) \/ VerifyFails(t)
             \/ CheckQuote(t) \/ Mint(t) \/ MintInterrupted(t) \/ Receive(t)
             \/ Notify(t) \/ Cleanup(t) \/ Unlock(t) \/ Drop(t)
      PROVE  pc'[s] = "credit" /\ charge'[s] = charge[s]
  <2>1. t # s
    BY <1>1 DEF Acquire, Lookup, Cancel, VerifyFails, CheckQuote, Mint, MintInterrupted, Receive,
                Notify, Cleanup, Unlock, Drop
  <2>2. pc'[s] = pc[s] /\ charge'[s] = charge[s]
    BY <1>1, <2>1 DEF Acquire, Lookup, Cancel, VerifyFails, CheckQuote, Mint, MintInterrupted, Receive,
                      Notify, Cleanup, Unlock, Drop, Goto, TypeInv, TypeOK
  <2> QED
    BY <2>2
<1>2. ASSUME NEW t \in Settlers, Credit(t), t # s PROVE pc'[s] = "credit" /\ charge'[s] = charge[s]
  BY <1>2 DEF Credit, Goto, TypeInv, TypeOK
<1>3. ASSUME NEW t, NEW c, NEW e, Comes(t, c, e) PROVE pc'[s] = "credit" /\ charge'[s] = charge[s]
  BY <1>3 DEF Comes, settle_charge, Goto, TypeInv, TypeOK
<1>4. CASE \/ \E k \in Keys, c \in Charges, h \in Hashes : IssueCharge(k, c, h)
           \/ \E c \in Charges : Pay(c) \/ Spend(c)
           \/ UNCHANGED vars
  BY <1>4 DEF IssueCharge, Pay, Spend, vars, callVars
<1> QED
  BY <1>1, <1>2, <1>3, <1>4, Cases

LEMMA CountedStays ==
  ASSUME SettleInv, [Next]_vars, NEW c \in Charges, Counted(c) PROVE Counted(c)' \/ Crash
<1>1. ASSUME NEW s \in Settlers, Credit(s)
      PROVE  credit_ledger'[charge[s]] # NoRow /\ (Resolved(c) => credit_ledger'[c] # NoRow)
  <2>1. charge[s] \in Charges /\ verified[s] \in Nat /\ TreasuryTypeOK
         /\ credit_verified(charge[s], verified[s])
    BY <1>1 DEF Credit, SettleInv, TypeInv, TypeOK, Placed
  <2> QED
    BY <2>1, CreditResolves DEF Resolved
<1>2. Resolved(c) => credit_ledger'[c] # NoRow
  BY <1>1, WhoCredits DEF Resolved, SettleInv
<1>3. ASSUME NEW s \in Settlers, pc[s] = "credit", charge[s] = c PROVE Counted(c)' \/ Crash
  BY <1>1, <1>3, AtCredit DEF Counted, Resolved, SettleInv
<1> QED
  BY <1>2, <1>3 DEF Counted, Resolved

LEMMA CutsGrow ==
  ASSUME TypeInv, [Next]_vars
  PROVE  /\ crashes \in Nat /\ crashes' \in Nat /\ cancels \in Nat /\ cancels' \in Nat
         /\ crashes' >= crashes /\ cancels' >= cancels
         /\ Crash => crashes' = crashes + 1
<1>1. crashes \in Nat /\ crashes' \in Nat /\ cancels \in Nat /\ cancels' \in Nat
  BY TypeStep, SettlementAssumption DEF TypeInv, TypeOK
<1>2. ASSUME NEW s \in Settlers,
             \/ Acquire(s) \/ Lookup(s) \/ Cancel(s) \/ VerifyFails(s)
             \/ CheckQuote(s) \/ Mint(s) \/ MintInterrupted(s) \/ Receive(s)
             \/ Credit(s) \/ Notify(s) \/ Cleanup(s) \/ Unlock(s) \/ Drop(s)
      PROVE  crashes' = crashes /\ cancels' \in {cancels, cancels + 1}
  BY <1>2 DEF Acquire, Lookup, Cancel, VerifyFails, CheckQuote, Mint, MintInterrupted, Receive,
              Credit, Notify, Cleanup, Unlock, Drop, boundVars
<1>3. ASSUME \/ \E k \in Keys, c \in Charges, h \in Hashes : IssueCharge(k, c, h)
             \/ \E c \in Charges : Pay(c) \/ Spend(c)
             \/ \E s, c, e : Comes(s, c, e)
             \/ UNCHANGED vars
      PROVE  crashes' = crashes /\ cancels' = cancels
  BY <1>3 DEF IssueCharge, Pay, Spend, Comes, settle_charge, vars, boundVars
<1>4. Crash => crashes' = crashes + 1 /\ cancels' = cancels
  BY DEF Crash
<1>5. Crash \/ (crashes' = crashes /\ cancels' \in {cancels, cancels + 1})
  BY <1>2, <1>3, Cases
<1> QED
  BY <1>1, <1>4, <1>5

LEMMA RedemptionStep ==
  ASSUME SettleInv, Redemptions, [Next]_vars, NEW c \in Charges
  PROVE  redeemed'[c] <= (IF Counted(c)' THEN 1 ELSE 0) + crashes' + cancels'
<1>1. /\ crashes \in Nat /\ crashes' \in Nat /\ cancels \in Nat /\ cancels' \in Nat
      /\ crashes' >= crashes /\ cancels' >= cancels
      /\ Crash => crashes' = crashes + 1
      /\ redeemed[c] \in Nat /\ redeemed[c] <= (IF Counted(c) THEN 1 ELSE 0) + crashes + cancels
  BY CutsGrow DEF SettleInv, TypeInv, TypeOK, Redemptions
<1>2. Counted(c) => Counted(c)' \/ Crash
  BY CountedStays
<1>3. CASE redeemed'[c] = redeemed[c]
  BY <1>1, <1>2, <1>3
<1>4. ASSUME NEW s \in Settlers, Mint(s) \/ MintInterrupted(s) \/ Receive(s), charge[s] = c,
             pc[s] \in {"verify", "mint"}, Gain(c)
      PROVE  redeemed'[c] <= (IF Counted(c)' THEN 1 ELSE 0) + crashes' + cancels'
  <2>1. redeemed'[c] = redeemed[c] + 1
    BY <1>4 DEF Gain, SettleInv, TypeInv, TypeOK
  <2>2. ~Counted(c)
    BY <1>4, LockExcludes DEF Counted, SettleInv, Unresolved, OneSettlerPerCharge, Inside
  <2>3. Counted(c)' \/ cancels' = cancels + 1
    BY <1>4 DEF Counted, Mint, MintInterrupted, Receive, Goto, SettleInv, TypeInv, TypeOK
  <2> QED
    BY <1>1, <2>1, <2>2, <2>3
<1>5. ASSUME NEW s \in Settlers, charge[s] # c, charge[s] \in Charges, Gain(charge[s])
      PROVE  redeemed'[c] = redeemed[c]
  BY <1>5 DEF Gain, SettleInv, TypeInv, TypeOK
<1> QED
  BY <1>3, <1>4, <1>5, WhoGains DEF SettleInv

LEMMA RedemptionsInit == Init => Redemptions
BY DEF Init, Redemptions

LEMMA RedemptionsStep == SettleInv /\ Redemptions /\ [Next]_vars => Redemptions'
<1> SUFFICES ASSUME SettleInv, Redemptions, [Next]_vars PROVE Redemptions'
  OBVIOUS
<1> QED
  BY RedemptionStep DEF Redemptions

LEMMA RedeemedAtMost == ASSUME SettleInv, Redemptions PROVE RedeemedOnce
<1> SUFFICES ASSUME NEW c \in Charges PROVE redeemed[c] <= 1 + crashes + cancels
  BY DEF RedeemedOnce
<1>1. redeemed[c] \in Nat /\ crashes \in Nat /\ cancels \in Nat
  BY SettlementAssumption DEF SettleInv, TypeInv, TypeOK
<1> QED
  BY <1>1 DEF Redemptions

(* One redemption for a charge, and one more for every crash or cancellation:  *)
(* the wallet never runs ahead of the books by more than what was cut off      *)
(* between them (the crash windows of settle_charge).                          *)
THEOREM RedemptionsBounded == Spec => []RedeemedOnce
<1>1. SettleInv /\ Redemptions => RedeemedOnce
  BY RedeemedAtMost
<1> QED
  BY <1>1, SettleInvInit, SettleInvStep, RedemptionsInit, RedemptionsStep, PTL DEF Spec

-----------------------------------------------------------------------------
(* The account (AgentAccount).  A charge spends nothing under its key, or finds *)
(* the row and changes nothing; a credit receives, and an overflow closes its  *)
(* payment with nothing.                                                       *)
CostOn == [k \in Keys |-> IF Performed(k) THEN ledger[k].cost_sats ELSE NoRow]
IncomeOn == [c \in Charges |-> IF Resolved(c) THEN credited[c] ELSE NoRow]

(* Nothing is credited without the row of the charge.                          *)
RowsOfCredits == \A c \in Charges : ~Resolved(c) => credited[c] = 0

LEMMA AccountStays ==
  ASSUME UNCHANGED <<balance, ledger, credit_ledger, credited, burned, adjusted>>
  PROVE  UNCHANGED Account!vars
BY DEF Account!vars, Performed, Resolved

LEMMA ChargeIsSpend ==
  ASSUME TreasuryTypeOK, NEW k \in Keys, NEW c \in Charges \cup {NoCharge}, NEW wired \in Rails,
         NEW hash \in Hashes \cup {NoHash}, record_charge_atomic(k, c, wired, hash)
  PROVE  [Account!Next]_Account!vars
<1>1. UNCHANGED <<balance, credit_ledger, credited, burned, adjusted>>
  BY DEF record_charge_atomic
<1>2. CASE ~Performed(k)
  <2>1. Performed(k)' /\ ledger'[k].cost_sats = 0 /\ balance \in Nat
    <3>1. [cost_sats |-> 0, after |-> balance, proof |-> c, request_hash |-> hash]
            \in PerformedRecord /\ balance \in Nat
      BY TreasuryAssumption DEF PerformedRecord, TreasuryTypeOK, Sats
    <3> QED
      BY <1>2, <3>1, NoRowAssumption DEF record_charge_atomic, Performed, TreasuryTypeOK
  <2>2. \A j \in Keys \ {k} : ledger'[j] = ledger[j]
    BY <1>2 DEF record_charge_atomic, TreasuryTypeOK
  <2>3. CostOn[k] = NoRow /\ CostOn' = [CostOn EXCEPT ![k] = balance - balance']
    <3>1. ledger'[k].cost_sats = balance - balance'
      BY <1>1, <2>1
    <3>2. ASSUME NEW j \in Keys
          PROVE  CostOn'[j] = [CostOn EXCEPT ![k] = balance - balance'][j]
      BY <1>2, <2>1, <2>2, <3>1 DEF CostOn, Performed
    <3> QED
      BY <1>2, <3>2 DEF CostOn
  <2>4. IncomeOn' = IncomeOn
    BY <1>1 DEF IncomeOn, Resolved
  <2>5. Account!Spend(k)
    BY <1>1, <2>1, <2>3, <2>4 DEF Account!Spend, CostOn, IncomeOn
  <2> QED
    BY <2>5 DEF Account!Next
<1>3. CASE Performed(k)
  BY <1>1, <1>3, AccountStays DEF record_charge_atomic
<1> QED
  BY <1>2, <1>3

LEMMA CreditIsReceive ==
  ASSUME TreasuryTypeOK, RowsOfCredits, NEW c \in Charges, NEW amount \in Nat,
         credit_verified(c, amount)
  PROVE  [Account!Next]_Account!vars /\ RowsOfCredits'
<1>1. UNCHANGED <<ledger, burned, adjusted>>
  BY DEF credit_verified
<1>2. CASE ~Resolved(c)
  <2>1. PICK gain \in Nat :
          /\ balance' = balance + gain /\ credited' = [credited EXCEPT ![c] = @ + gain]
          /\ Resolved(c)'
    <3>1. CASE CreditOutcome(c, amount) = "Credited"
      <4>1. balance + amount \in Sats
        BY <1>2, <3>1, TreasuryAssumption DEF CreditOutcome, TreasuryTypeOK, Sats
      <4>2. [proof |-> "credit-verified", after |-> balance + amount] \in CreditRecord
        BY <4>1 DEF CreditRecord
      <4> QED
        BY <3>1, <4>2, NoRowAssumption DEF credit_verified, Resolved, TreasuryTypeOK
    <3>2. CASE CreditOutcome(c, amount) = "Overflow"
      <4>1. [proof |-> "credit-terminal-overflow", after |-> balance] \in CreditRecord
        BY DEF CreditRecord, TreasuryTypeOK
      <4>2. Resolved(c)' /\ UNCHANGED <<balance, credited>>
        BY <3>2, <4>1, NoRowAssumption DEF credit_verified, Resolved, TreasuryTypeOK
      <4>3. balance' = balance + 0 /\ credited' = [credited EXCEPT ![c] = @ + 0]
        BY <4>2, TreasuryAssumption DEF TreasuryTypeOK, Sats
      <4> QED
        BY <4>2, <4>3
    <3> QED
      BY <1>2, <3>1, <3>2 DEF CreditOutcome
  <2>2. \A d \in Charges \ {c} : credit_ledger'[d] = credit_ledger[d] /\ credited'[d] = credited[d]
    BY DEF credit_verified, TreasuryTypeOK
  <2>3. balance \in Nat /\ balance' \in Nat /\ balance' >= balance /\ credited'[c] = balance' - balance
    BY <1>2, <2>1, TreasuryAssumption DEF RowsOfCredits, TreasuryTypeOK, Sats
  <2>4. IncomeOn[c] = NoRow /\ IncomeOn' = [IncomeOn EXCEPT ![c] = balance' - balance]
    BY <1>2, <2>1, <2>2, <2>3 DEF IncomeOn, Resolved
  <2>5. CostOn' = CostOn
    BY <1>1 DEF CostOn, Performed
  <2>6. Account!Receive(c)
    BY <1>1, <2>3, <2>4, <2>5 DEF Account!Receive, CostOn, IncomeOn
  <2>7. RowsOfCredits'
    BY <2>1, <2>2 DEF RowsOfCredits, Resolved
  <2> QED
    BY <2>6, <2>7 DEF Account!Next
<1>3. CASE Resolved(c)
  <2>1. UNCHANGED <<balance, credit_ledger, credited>>
    <3>1. CreditOutcome(c, amount) \notin {"Credited", "Overflow"}
      BY <1>3 DEF CreditOutcome, classify_prior
    <3> QED
      BY <3>1 DEF credit_verified
  <2> QED
    BY <1>1, <2>1, AccountStays DEF RowsOfCredits, Resolved
<1> QED
  BY <1>2, <1>3

LEMMA AccountOpens == ASSUME TreasuryInit PROVE Account!Init /\ RowsOfCredits
BY DEF TreasuryInit, Account!Init, RowsOfCredits, Performed, Resolved

(* The earn path keeps the account of the agent: whatever calls race for it, a *)
(* payment is received once, for good and also across restarts, and an         *)
(* overflow closes it with nothing (settle_charge, credit_verified).           *)
THEOREM SettlementKeepsTheAccount == Spec => KeepsTheAccount
<1>1. Init => Account!Init /\ RowsOfCredits
  BY AccountOpens DEF Init
<1>2. ASSUME TypeInv, RowsOfCredits, [Next]_vars
      PROVE  [Account!Next]_Account!vars /\ RowsOfCredits'
  <2>1. CASE \E k \in Keys, c \in Charges, h \in Hashes : IssueCharge(k, c, h)
    <3>1. PICK k \in Keys, c \in Charges, h \in Hashes : record_charge_atomic(k, c, rail, h)
      BY <2>1 DEF IssueCharge
    <3>2. RowsOfCredits'
      BY <1>2, <3>1 DEF record_charge_atomic, RowsOfCredits, Resolved
    <3>3. TreasuryTypeOK /\ rail \in Rails
      BY <1>2, RailIsRail DEF TypeInv, TypeOK
    <3> QED
      BY <3>1, <3>2, <3>3, ChargeIsSpend
  <2>2. CASE \E s \in Settlers : Credit(s)
    <3>1. PICK s \in Settlers : Credit(s)
      BY <2>2
    <3>2. /\ charge[s] \in Charges /\ verified[s] \in Nat /\ TreasuryTypeOK
          /\ credit_verified(charge[s], verified[s])
      BY <1>2, <3>1 DEF Credit, TypeInv, TypeOK, Placed
    <3> QED
      BY <1>2, <3>2, CreditIsReceive
  <2>3. CASE UNCHANGED <<balance, ledger, credit_ledger, credited, burned, adjusted>>
    BY <1>2, <2>3, AccountStays DEF RowsOfCredits, Resolved
  <2>4. ASSUME NEW s \in Settlers,
               \/ Acquire(s) \/ Lookup(s) \/ Cancel(s) \/ VerifyFails(s)
               \/ CheckQuote(s) \/ Mint(s) \/ MintInterrupted(s) \/ Receive(s)
               \/ Notify(s) \/ Cleanup(s) \/ Unlock(s) \/ Drop(s)
        PROVE  UNCHANGED treasuryVars
    BY <2>4 DEF Acquire, Lookup, Cancel, VerifyFails, CheckQuote, Mint, MintInterrupted, Receive,
                Notify, Cleanup, Unlock, Drop
  <2>5. CASE (\E c \in Charges : Pay(c) \/ Spend(c)) \/ (\E s, c, e : Comes(s, c, e)) \/ Crash
             \/ UNCHANGED vars
    BY <2>3, <2>5 DEF Pay, Spend, Comes, settle_charge, Crash, Open, vars, treasuryVars, stores
  <2> QED
    BY <1>2, <2>1, <2>2, <2>3, <2>4, <2>5, Cases DEF treasuryVars, stores
<1> QED
  BY <1>1, <1>2, SettleInit, TypeStep, PTL DEF Spec, KeepsTheAccount, Account!Spec
=============================================================================
