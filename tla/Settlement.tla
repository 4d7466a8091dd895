----------------------------- MODULE Settlement -----------------------------
(* The earn path of the gateway (crates/kirby-node/src/gateway.rs              *)
(* settle_charge, settle_inner and pending_settlement_sweep; the settlement    *)
(* providers of rail.rs).  Calls of settle_charge run concurrently, each in    *)
(* the order lock - look up - verify at the mint - credit - notify, over a map *)
(* of per-charge locks whose entries come and go.                              *)
EXTENDS Treasury

CONSTANTS
  Settlers,      \* calls of settle_charge in flight
  Poller,        \* the one of them that is the settlement poller
  Locks,         \* lock allocations, numbered
  WiredRails,    \* the rails boot may wire, one of them
  Tokens,        \* the Cashu tokens customers hold
  Price,         \* the sats of a charge, and of a token
  NoSettler,
  NoToken,
  NoLock,
  MaxCrashes,    \* bound: restarts
  MaxCancels,    \* bound: calls dropped, or mint responses lost
  MaxSpends      \* bound: spends of wallet proofs by other acts

ASSUME SettlementAssumption ==
  /\ Poller \in Settlers
  /\ NoSettler \notin Settlers /\ NoToken \notin Tokens
  /\ Locks \subseteq Nat /\ NoLock \notin Locks
  /\ IsFiniteSet(Charges) /\ IsFiniteSet(Settlers) /\ IsFiniteSet(Locks)
  /\ Cardinality(Charges) + Cardinality(Settlers) <= Cardinality(Locks) + 1
  /\ WiredRails \subseteq Rails
  /\ {Price, MaxCrashes, MaxCancels, MaxSpends} \subseteq Nat

VARIABLES
  rail,                   \* the rail boot has wired
  pc, charge, evidence,   \* a call: where it is, its charge and its token
  verified,               \* the sats verify_settlement returned to it
  lock,                   \* the lock it holds a reference to (charge_lock)
  settle_locks,           \* Charges -> the lock the map has for it
  owner,                  \* Locks -> the call that holds the mutex
  inbox,                  \* Charges -> sats announced by PAYMENT_SETTLED
  stranded,               \* charges recorded by the stranded sink
  \* The mint and the host's wallet.
  quote,                  \* Charges -> the state of its mint quote
  spent,                  \* tokens already redeemed
  held,                   \* Charges -> its unspent proofs in the wallet
  minted,                 \* history: all proofs the wallet ever got for it
  redeemed,               \* history: how often the wallet redeemed for it
  crashes, cancels, spends

callVars == <<pc, charge, evidence, verified, lock>>
lockVars == <<settle_locks, owner>>
mintVars == <<quote, spent, held, minted, redeemed>>
boundVars == <<crashes, cancels, spends>>
vars == <<rail, treasuryVars, callVars, lockVars, inbox, stranded, mintVars, boundVars>>

Steps == {"idle", "wait", "lookup", "verify", "mint", "credit", "notify",
          "cleanup", "unlock", "drop"}

TypeOK ==
  /\ TreasuryTypeOK
  /\ rail \in WiredRails
  /\ pc \in [Settlers -> Steps]
  /\ charge \in [Settlers -> Charges \cup {NoCharge}]
  /\ evidence \in [Settlers -> Tokens \cup {NoToken}]
  /\ verified \in [Settlers -> Nat]
  /\ lock \in [Settlers -> Locks \cup {NoLock}]
  /\ settle_locks \in [Charges -> Locks \cup {NoLock}]
  /\ owner \in [Locks -> Settlers \cup {NoSettler}]
  /\ inbox \in [Charges -> Nat]
  /\ stranded \subseteq Charges
  /\ quote \in [Charges -> {"Unpaid", "Paid", "Issued"}]
  /\ spent \subseteq Tokens
  /\ held \in [Charges -> Nat]
  /\ minted \in [Charges -> Nat]
  /\ redeemed \in [Charges -> Nat]
  /\ crashes \in 0..MaxCrashes
  /\ cancels \in 0..MaxCancels
  /\ spends \in 0..MaxSpends

Init ==
  /\ TreasuryInit
  /\ rail \in WiredRails
  /\ pc = [s \in Settlers |-> "idle"]
  /\ charge = [s \in Settlers |-> NoCharge]
  /\ evidence = [s \in Settlers |-> NoToken]
  /\ verified = [s \in Settlers |-> 0]
  /\ lock = [s \in Settlers |-> NoLock]
  /\ settle_locks = [c \in Charges |-> NoLock]
  /\ owner = [l \in Locks |-> NoSettler]
  /\ inbox = [c \in Charges |-> 0]
  /\ stranded = {}
  /\ quote = [c \in Charges |-> "Unpaid"]
  /\ spent = {}
  /\ held = [c \in Charges |-> 0]
  /\ minted = [c \in Charges |-> 0]
  /\ redeemed = [c \in Charges |-> 0]
  /\ crashes = 0
  /\ cancels = 0
  /\ spends = 0

Goto(s, step) == pc' = [pc EXCEPT ![s] = step]

-----------------------------------------------------------------------------
(* The charge is issued (Gateway has the handler) and the customer pays it.    *)
IssueCharge(k, c, h) ==
  /\ issued_charges[c] = NoRow
  /\ ~Performed(k)
  /\ record_charge_atomic(k, c, rail, h)
  /\ UNCHANGED <<rail, callVars, lockVars, inbox, stranded, mintVars, boundVars>>

Pay(c) ==
  /\ rail = "Lightning" /\ issued_charges[c] # NoRow /\ quote[c] = "Unpaid"
  /\ quote' = [quote EXCEPT ![c] = "Paid"]
  /\ UNCHANGED <<rail, treasuryVars, callVars, lockVars, inbox, stranded,
                 spent, held, minted, redeemed, boundVars>>

-----------------------------------------------------------------------------
(* settle_charge.                                                              *)

(* Arc::strong_count: the map's reference and one per call that cloned it.     *)
strong_count(l) ==
  Cardinality({c \in Charges : settle_locks[c] = l})
    + Cardinality({s \in Settlers : lock[s] = l})

FreshLock == CHOOSE l \in Locks : strong_count(l) = 0

LockFor_Own(c) == FreshLock  \* mutation: every call gets a lock of its own

LockFor(c) == IF settle_locks[c] # NoLock THEN settle_locks[c] ELSE FreshLock

Free(l) == owner[l] = NoSettler /\ ~ \E s \in Settlers : pc[s] = "wait" /\ lock[s] = l

(* Entry: take the map's lock for the charge, or insert a new one; then take   *)
(* the mutex, or queue for it.                                                 *)
settle_charge(s, c, e) ==
  LET l == LockFor(c) IN
  /\ pc[s] = "idle"
  /\ IF Free(l)
       THEN Goto(s, "lookup") /\ owner' = [owner EXCEPT ![l] = s]
       ELSE Goto(s, "wait") /\ UNCHANGED owner
  /\ charge' = [charge EXCEPT ![s] = c]
  /\ evidence' = [evidence EXCEPT ![s] = e]
  /\ lock' = [lock EXCEPT ![s] = l]
  /\ settle_locks' = [settle_locks EXCEPT ![c] = l]
  /\ UNCHANGED <<rail, treasuryVars, verified, inbox, stranded, mintVars, boundVars>>

(* The sweep calls it for each charge of the poll index that is not credited;  *)
(* a customer's client for the charge it was quoted, with a token on Cashu.    *)
Poll(c) == c \in issued_uncredited_charge_ids /\ settle_charge(Poller, c, NoToken)

Submit(s, c) ==
  /\ s # Poller /\ issued_charges[c] # NoRow
  /\ IF rail = "Cashu"
       THEN \E e \in Tokens : settle_charge(s, c, e)
       ELSE settle_charge(s, c, NoToken)

Acquire(s) ==
  /\ pc[s] = "wait" /\ owner[lock[s]] = NoSettler
  /\ owner' = [owner EXCEPT ![lock[s]] = s]
  /\ Goto(s, "lookup")
  /\ UNCHANGED <<rail, treasuryVars, charge, evidence, verified, lock, settle_locks,
                 inbox, stranded, mintVars, boundVars>>

(* State first: a resolved charge returns its prior outcome.                   *)
Lookup_Skip(s) ==  \* mutation: the durable row is not consulted under the lock
  /\ pc[s] = "lookup"
  /\ Goto(s, "verify")
  /\ UNCHANGED <<rail, treasuryVars, charge, evidence, verified, lock, lockVars,
                 inbox, stranded, mintVars, boundVars>>

Lookup(s) ==
  /\ pc[s] = "lookup"
  /\ Goto(s, IF Resolved(charge[s]) THEN "cleanup" ELSE "verify")
  /\ UNCHANGED <<rail, treasuryVars, charge, evidence, verified, lock, lockVars,
                 inbox, stranded, mintVars, boundVars>>

-----------------------------------------------------------------------------
(* verify_settlement of LightningSettlement: ask the mint for the quote.       *)
(* Unpaid is an error; Issued is a recovery, of what the wallet still holds;   *)
(* Paid goes on to mint.                                                       *)
Recoverable_Claimed(c) ==  \* mutation: the mint's own figure is credited
  IF quote[c] = "Issued" THEN Price ELSE 0

Recoverable(c) == IF quote[c] = "Issued" THEN held[c] ELSE 0

CheckQuote_NoSink(s) ==  \* mutation: an issued quote without proofs is not recorded
  LET c == charge[s] IN
  /\ pc[s] = "verify" /\ rail = "Lightning"
  /\ Goto(s, CASE quote[c] = "Paid" -> "mint"
               [] Recoverable(c) > 0 -> "credit"
               [] OTHER -> "cleanup")
  /\ verified' = [verified EXCEPT ![s] = Recoverable(c)]
  /\ UNCHANGED <<rail, treasuryVars, charge, evidence, lock, lockVars, inbox, stranded,
                 mintVars, boundVars>>

CheckQuote(s) ==
  LET c == charge[s] IN
  /\ pc[s] = "verify" /\ rail = "Lightning"
  /\ Goto(s, CASE quote[c] = "Paid" -> "mint"
               [] Recoverable(c) > 0 -> "credit"
               [] OTHER -> "cleanup")
  /\ verified' = [verified EXCEPT ![s] = Recoverable(c)]
  /\ stranded' = IF quote[c] = "Issued" /\ Recoverable(c) = 0
                   THEN stranded \cup {c} ELSE stranded
  /\ UNCHANGED <<rail, treasuryVars, charge, evidence, lock, lockVars, inbox, mintVars, boundVars>>

(* The wallet gains the proofs of a charge.                                    *)
Gain(c) ==
  /\ held' = [held EXCEPT ![c] = @ + Price]
  /\ minted' = [minted EXCEPT ![c] = @ + Price]
  /\ redeemed' = [redeemed EXCEPT ![c] = @ + 1]

(* wallet.mint succeeds.                                                       *)
Mint(s) ==
  LET c == charge[s] IN
  /\ pc[s] = "mint" /\ quote[c] = "Paid"
  /\ quote' = [quote EXCEPT ![c] = "Issued"]
  /\ Gain(c)
  /\ verified' = [verified EXCEPT ![s] = Price]
  /\ Goto(s, "credit")
  /\ UNCHANGED <<rail, treasuryVars, charge, evidence, lock, lockVars, inbox, stranded,
                 spent, boundVars>>

(* The mint signs, and the call is dropped or its response lost: with the      *)
(* proofs stored, or without.                                                  *)
MintInterrupted(s) ==
  LET c == charge[s] IN
  /\ pc[s] = "mint" /\ quote[c] = "Paid" /\ cancels < MaxCancels
  /\ cancels' = cancels + 1
  /\ quote' = [quote EXCEPT ![c] = "Issued"]
  /\ Gain(c) \/ UNCHANGED <<held, minted, redeemed>>
  /\ Goto(s, "cleanup")
  /\ UNCHANGED <<rail, treasuryVars, charge, evidence, verified, lock, lockVars, inbox,
                 stranded, spent, crashes, spends>>

(* verify_settlement of CashuSettlement: the mint swaps an unspent token.      *)
Receive(s) ==
  /\ pc[s] = "verify" /\ rail = "Cashu" /\ evidence[s] \notin spent
  /\ spent' = spent \cup {evidence[s]}
  /\ Gain(charge[s])
  /\ \/ /\ verified' = [verified EXCEPT ![s] = Price]
        /\ Goto(s, "credit")
        /\ UNCHANGED cancels
     \/ /\ cancels < MaxCancels  \* dropped after the swap
        /\ cancels' = cancels + 1
        /\ Goto(s, "cleanup")
        /\ UNCHANGED verified
  /\ UNCHANGED <<rail, treasuryVars, charge, evidence, lock, lockVars, inbox, stranded,
                 quote, crashes, spends>>

(* The provider returns an error and nothing has happened: the mint could not  *)
(* be reached, or the token was spent, or the quote was not paid after all.    *)
VerifyFails(s) ==
  /\ pc[s] \in {"verify", "mint"}
  /\ Goto(s, "cleanup")
  /\ UNCHANGED <<rail, treasuryVars, charge, evidence, verified, lock, lockVars, inbox,
                 stranded, mintVars, boundVars>>

-----------------------------------------------------------------------------
Credit(s) ==
  /\ pc[s] = "credit"
  /\ credit_verified(charge[s], verified[s])
  /\ Goto(s, IF CreditOutcome(charge[s], verified[s]) = "Credited"
               THEN "notify" ELSE "cleanup")
  /\ UNCHANGED <<rail, charge, evidence, verified, lock, lockVars, inbox, stranded,
                 mintVars, boundVars>>

(* PAYMENT_SETTLED is an in-memory push.                                       *)
Notify(s) ==
  /\ pc[s] = "notify"
  /\ inbox' = [inbox EXCEPT ![charge[s]] = @ + verified[s]]
  /\ Goto(s, "cleanup")
  /\ UNCHANGED <<rail, treasuryVars, charge, evidence, verified, lock, lockVars, stranded,
                 mintVars, boundVars>>

(* The locals are dropped in the reverse of their order: SettleLockCleanup     *)
(* removes the entry if the map and this call are the last to refer to it,     *)
(* then the mutex is released, then the reference to it.                       *)
Cleanup_NoCount(s) ==  \* mutation: the entry is removed under a waiter
  /\ pc[s] = "cleanup"
  /\ settle_locks' = [settle_locks EXCEPT ![charge[s]] = IF @ = lock[s] THEN NoLock ELSE @]
  /\ Goto(s, "unlock")
  /\ UNCHANGED <<rail, treasuryVars, charge, evidence, verified, lock, owner, inbox, stranded,
                 mintVars, boundVars>>

Cleanup(s) ==
  LET is_ours == settle_locks[charge[s]] = lock[s] IN
  /\ pc[s] = "cleanup"
  /\ settle_locks' = IF is_ours /\ strong_count(lock[s]) = 2
                       THEN [settle_locks EXCEPT ![charge[s]] = NoLock]
                       ELSE settle_locks
  /\ Goto(s, "unlock")
  /\ UNCHANGED <<rail, treasuryVars, charge, evidence, verified, lock, owner, inbox, stranded,
                 mintVars, boundVars>>

Unlock(s) ==
  /\ pc[s] = "unlock"
  /\ owner' = [owner EXCEPT ![lock[s]] = NoSettler]
  /\ Goto(s, "drop")
  /\ UNCHANGED <<rail, treasuryVars, charge, evidence, verified, lock, settle_locks, inbox,
                 stranded, mintVars, boundVars>>

Drop(s) ==
  /\ pc[s] = "drop"
  /\ Goto(s, "idle")
  /\ charge' = [charge EXCEPT ![s] = NoCharge]
  /\ evidence' = [evidence EXCEPT ![s] = NoToken]
  /\ verified' = [verified EXCEPT ![s] = 0]
  /\ lock' = [lock EXCEPT ![s] = NoLock]
  /\ UNCHANGED <<rail, treasuryVars, lockVars, inbox, stranded, mintVars, boundVars>>

(* The call is dropped while it waits for the lock: there is no cleanup guard  *)
(* yet.  (Dropped at the mint, it is MintInterrupted or VerifyFails.)          *)
Cancel(s) ==
  /\ pc[s] = "wait" /\ cancels < MaxCancels
  /\ cancels' = cancels + 1
  /\ Goto(s, "drop")
  /\ UNCHANGED <<rail, treasuryVars, charge, evidence, verified, lock, lockVars, inbox,
                 stranded, mintVars, crashes, spends>>

-----------------------------------------------------------------------------
(* Another act spends proofs of the wallet; any unspent proof will do.         *)
Spend(c) ==
  /\ spends < MaxSpends
  /\ spends' = spends + 1
  /\ \E left \in 0..(held[c] - 1) : held' = [held EXCEPT ![c] = left]
  /\ UNCHANGED <<rail, treasuryVars, callVars, lockVars, inbox, stranded,
                 quote, spent, minted, redeemed, crashes, cancels>>

(* The daemon dies between any two steps: calls, locks and the inbox go.       *)
Crash ==
  /\ crashes < MaxCrashes
  /\ crashes' = crashes + 1
  /\ Open
  /\ pc' = [s \in Settlers |-> "idle"]
  /\ charge' = [s \in Settlers |-> NoCharge]
  /\ evidence' = [s \in Settlers |-> NoToken]
  /\ verified' = [s \in Settlers |-> 0]
  /\ lock' = [s \in Settlers |-> NoLock]
  /\ settle_locks' = [c \in Charges |-> NoLock]
  /\ owner' = [l \in Locks |-> NoSettler]
  /\ inbox' = [c \in Charges |-> 0]
  /\ UNCHANGED <<rail, stranded, mintVars, cancels, spends>>

Provider(s) == CheckQuote(s) \/ Mint(s) \/ MintInterrupted(s) \/ Receive(s) \/ VerifyFails(s)

Call(s) ==
  \/ Acquire(s) \/ Lookup(s) \/ Provider(s) \/ Credit(s) \/ Notify(s)
  \/ Cleanup(s) \/ Unlock(s) \/ Drop(s)

Next ==
  \/ \E k \in Keys, c \in Charges, h \in Hashes : IssueCharge(k, c, h)
  \/ \E c \in Charges : Pay(c) \/ Poll(c) \/ Spend(c)
  \/ \E s \in Settlers, c \in Charges : Submit(s, c)
  \/ \E s \in Settlers : Call(s) \/ Cancel(s)
  \/ Crash

Spec == Init /\ [][Next]_vars

(* Calls run on; the sweep comes back to every charge of the index; the mutex  *)
(* is a fair queue; a mint that is asked again and again answers at last.      *)
Fairness ==
  /\ \A s \in Settlers : WF_vars(Call(s)) /\ SF_vars(Acquire(s))
  /\ \A c \in Charges : SF_vars(Poll(c))
  /\ SF_vars(CheckQuote(Poller)) /\ SF_vars(Mint(Poller))

FairSpec == Spec /\ Fairness
-----------------------------------------------------------------------------
Inside == {"lookup", "verify", "mint", "credit", "notify"}

(* One settlement of a charge at a time, although the entry that holds its     *)
(* lock is removed and inserted anew while calls come and wait                 *)
(* (settle_locks, SettleLockCleanup).                                          *)
OneSettlerPerCharge ==
  \A s, t \in Settlers :
    s # t /\ pc[s] \in Inside /\ pc[t] \in Inside => charge[s] # charge[t]

(* A resolved charge is dead to the wallet: no proof is minted and no token    *)
(* redeemed for it again, so the wallet cannot run ahead of the treasury       *)
(* (settle_inner looks the row up inside the lock).                            *)
ResolvedWalletUntouched ==
  [][\A c \in Charges : Resolved(c) => redeemed'[c] = redeemed[c]]_vars

(* The wallet gets ahead of the treasury by at most one redemption for each    *)
(* time a call was cut off between the two (the crash windows of               *)
(* settle_charge).                                                             *)
RedeemedOnce ==
  \A c \in Charges : redeemed[c] <= 1 + crashes + cancels

(* No phantom sats: what is credited for a charge was minted for it, also when *)
(* the mint says Issued and its answer was lost (held_unspent_for_quote).      *)
CreditedWasMinted == \A c \in Charges : credited[c] <= minted[c]

(* The genome hears of a payment at most once, and of the sats that were       *)
(* credited: nothing for an overflow, a duplicate or a terminal charge.        *)
NoticeIsCredit == \A c \in Charges : inbox[c] \in {0, credited[c]}

(* A paid charge is not forgotten: through crashes, dropped calls and lost     *)
(* answers it ends up resolved on the books or recorded as stranded            *)
(* (pending_settlement_sweep, the Issued recovery).                            *)
PaidIsSettled ==
  \A c \in Charges : quote[c] = "Paid" ~> Resolved(c) \/ c \in stranded

(* What the SettleLockCleanup comment says: the entry is removed on every      *)
(* exit, a cancellation included.  The guard does not exist yet while a call   *)
(* waits, and the call it waits for has already decided to leave the entry.    *)
NoLockLeaks ==
  (\A s \in Settlers : pc[s] = "idle") => \A c \in Charges : settle_locks[c] = NoLock
=============================================================================
