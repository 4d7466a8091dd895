------------------------------- MODULE Gateway -------------------------------
(* The money path of the gateway (crates/kirby-node/src/gateway.rs): requests  *)
(* run authorize_capability concurrently over one treasury, each an async      *)
(* handler that other handlers, the meter and a crash interleave with at every *)
(* read, transaction and await.  The acts:                                     *)
(*   generic  estimate gate, perform on the rail, then debit the actual;       *)
(*   memory   a write: floor and cost gates, write to the store, then debit;   *)
(*   publish  fixed cost: debit first (the reservation), then publish;         *)
(*   fetch    variable cost: gate, perform and debit under egress_debit_gate;  *)
(*   charge   issue a payment request, then record it at no cost.              *)
(* Free memory reads change nothing and are left out.                          *)
EXTENDS Treasury

CONSTANTS
  Clients,      \* concurrent requests the server holds
  Requests,     \* the capability requests the genome may send
  NoRequest,
  NoClient,
  NoReply,
  Burns,        \* the rents a meter tick may charge
  HaltFloor,    \* the floor-halt threshold; 0 disables it
  MaxArrivals,  \* bound: requests sent
  MaxCancels,   \* bound: requests dropped by their client
  MaxBoots      \* bound: restarts

Acts == {"generic", "memory", "publish", "fetch", "charge"}

Outcomes == {"AuthorizedAndPerformed", "DuplicateIgnored", "DeniedOverBudget",
             "DeniedInsufficientTreasury", "DeniedNotAllowlisted",
             "DeniedNotActiveLease", "UpstreamFailed", "Unspecified"}

(* The balance a denial reports is left out: nothing is decided by it.         *)
Receipt == [key : Keys, outcome : Outcomes, cost_sats : Nat, after : Sats,
            proof : Charges \cup {NoCharge}]

(* What the handler reads of a request and of the daemon's configuration for   *)
(* it: allowed is the allowlist's verdict on the destination, valid the        *)
(* payload guard's, estimate the host's cost, ceiling the act's own maximum.   *)
Request ==
  [act : Acts, key : Keys, request_hash : Hashes \cup {NoHash},
   allowed : BOOLEAN, valid : BOOLEAN,
   estimate : Nat, ceiling : Nat, budget_sats : Nat, wseq : Nat]

ASSUME GatewayAssumption ==
  /\ Requests \subseteq Request
  /\ NoRequest \notin Request
  /\ NoClient \notin Clients
  /\ NoReply \notin Receipt
  /\ {HaltFloor, MaxArrivals, MaxCancels, MaxBoots} \subseteq Nat
  /\ Burns \subseteq Nat

VARIABLES
  pc,            \* where each client's handler is
  req,           \* its request
  actual,        \* the cost the rail or the store reported
  quoted,        \* the charge id the settlement provider handed it
  reply,         \* the last receipt the client got
  active,        \* this node holds the lease (the fence's verdict)
  egress_owner,  \* the holder of egress_debit_gate
  wseq_floor,    \* the write-sequence barrier
  halted,        \* the meter has halted the VM
  \* The world outside the daemon.
  performed,     \* Keys -> how often the outward effect of that key happened
  head,          \* the memory write whose content the store serves
  tokens,        \* the write tokens the store client has committed this run
  quotes,        \* charge ids handed out so far
  \* History and bounds.
  unpaid,        \* acts performed and then refused by the debit
  sent,          \* the highest write sequence the genome has sent in this run
  arrivals, cancels, boots

requestVars == <<pc, req, actual, quoted, reply>>
daemonVars == <<active, egress_owner, wseq_floor, halted>>
worldVars == <<performed, head, tokens, quotes>>
boundVars == <<sent, arrivals, cancels, boots>>
vars == <<treasuryVars, requestVars, daemonVars, worldVars, unpaid, boundVars>>

Steps == {"idle", "admit", "gate", "reserve", "lock", "regate", "perform", "record"}

RequestTypeOK ==
  /\ pc \in [Clients -> Steps]
  /\ req \in [Clients -> Requests \cup {NoRequest}]
  /\ \A c \in Clients : pc[c] # "idle" => req[c] \in Requests
  /\ actual \in [Clients -> Nat]
  /\ quoted \in [Clients -> Charges \cup {NoCharge}]
  /\ reply \in [Clients -> Receipt \cup {NoReply}]

DaemonTypeOK ==
  /\ active \in BOOLEAN
  /\ egress_owner \in Clients \cup {NoClient}
  /\ wseq_floor \in Nat
  /\ halted \in BOOLEAN

WorldTypeOK ==
  /\ performed \in [Keys -> Nat]
  /\ head \in Requests \cup {NoRequest}
  /\ tokens \subseteq Keys
  /\ quotes \subseteq Charges
  /\ unpaid \subseteq Keys

TypeOK ==
  /\ TreasuryTypeOK
  /\ RequestTypeOK
  /\ DaemonTypeOK
  /\ WorldTypeOK
  /\ sent \in Nat
  /\ arrivals \in 0..MaxArrivals
  /\ cancels \in 0..MaxCancels
  /\ boots \in 0..MaxBoots

Init ==
  /\ TreasuryInit
  /\ pc = [c \in Clients |-> "idle"]
  /\ req = [c \in Clients |-> NoRequest]
  /\ actual = [c \in Clients |-> 0]
  /\ quoted = [c \in Clients |-> NoCharge]
  /\ reply = [c \in Clients |-> NoReply]
  /\ active = TRUE
  /\ egress_owner = NoClient
  /\ wseq_floor = 1
  /\ halted = FALSE
  /\ performed = [k \in Keys |-> 0]
  /\ head = NoRequest
  /\ tokens = {}
  /\ quotes = {}
  /\ unpaid = {}
  /\ sent = 0
  /\ arrivals = 0
  /\ cancels = 0
  /\ boots = 0

-----------------------------------------------------------------------------
(* Leaving a step.                                                             *)

Goto(c, step) ==
  /\ pc' = [pc EXCEPT ![c] = step]
  /\ UNCHANGED <<req, reply>>

Leave(c) ==
  /\ pc' = [pc EXCEPT ![c] = "idle"]
  /\ req' = [req EXCEPT ![c] = NoRequest]
  /\ actual' = [actual EXCEPT ![c] = 0]
  /\ quoted' = [quoted EXCEPT ![c] = NoCharge]

Answer(c, r) == Leave(c) /\ reply' = [reply EXCEPT ![c] = r]

(* A denial debits nothing.                                                    *)
denied(k, outcome) ==
  [key |-> k, outcome |-> outcome, cost_sats |-> 0, after |-> 0, proof |-> NoCharge]

(* The receipt a stored row gives.                                             *)
receipt(k, outcome) ==
  [key |-> k, outcome |-> outcome, cost_sats |-> ledger[k].cost_sats,
   after |-> ledger[k].after, proof |-> ledger[k].proof]

(* The receipt of the debit a handler has just tried: its own numbers when it  *)
(* won, the row of whoever was first when it did not.                          *)
DebitReceipt_OwnNumbers(k, cost, proof) ==  \* mutation: a duplicate gets its own numbers
  IF DebitOutcome(k, cost) = "Insufficient" THEN denied(k, "DeniedInsufficientTreasury")
  ELSE [key |-> k, outcome |-> "AuthorizedAndPerformed", cost_sats |-> cost,
        after |-> SaturatingSub(balance, cost), proof |-> proof]

DebitReceipt(k, cost, proof) ==
  CASE DebitOutcome(k, cost) = "Debited" ->
         [key |-> k, outcome |-> "AuthorizedAndPerformed", cost_sats |-> cost,
          after |-> balance - cost, proof |-> proof]
    [] DebitOutcome(k, cost) = "Duplicate" -> receipt(k, "DuplicateIgnored")
    [] OTHER -> denied(k, "DeniedInsufficientTreasury")

-----------------------------------------------------------------------------
(* The genome sends a request; a repeated key is a replay.  Its write sequence *)
(* only rises while it runs; a genome resumed from a checkpoint may go back.   *)
Arrive(c, q) ==
  /\ pc[c] = "idle" /\ ~halted /\ arrivals < MaxArrivals
  /\ q.act = "memory" => q.wseq >= sent
  /\ sent' = IF q.act = "memory" THEN q.wseq ELSE sent
  /\ arrivals' = arrivals + 1
  /\ pc' = [pc EXCEPT ![c] = "admit"]
  /\ req' = [req EXCEPT ![c] = q]
  /\ UNCHANGED <<treasuryVars, actual, quoted, reply, daemonVars, worldVars, unpaid,
                 cancels, boots>>

(* Steps 0, 1 and 2: the lease fence, the dedupe and the allowlist.  A memory  *)
(* key reused with a different content hash is refused; a charge key is        *)
(* idempotent whatever the new terms are.                                      *)
HashDiverges(q, row) ==
  /\ q.request_hash # NoHash
  /\ row.request_hash # NoHash
  /\ q.request_hash # row.request_hash

AdmitReply(q) ==
  CASE ~active -> denied(q.key, "DeniedNotActiveLease")
    [] active /\ Performed(q.key) ->
         IF q.act = "memory" /\ HashDiverges(q, ledger[q.key])
           THEN denied(q.key, "Unspecified")
           ELSE receipt(q.key, "DuplicateIgnored")
    [] OTHER -> denied(q.key, "DeniedNotAllowlisted")

Admit_NoDedupe(c) ==  \* mutation: step 1 is skipped
  LET q == req[c] IN
  /\ pc[c] = "admit"
  /\ IF active /\ q.allowed
       THEN /\ Goto(c, IF q.act = "charge" THEN "perform" ELSE "gate")
            /\ UNCHANGED <<actual, quoted>>
       ELSE Answer(c, AdmitReply(q))
  /\ UNCHANGED <<treasuryVars, daemonVars, worldVars, unpaid, boundVars>>

Admit(c) ==
  LET q == req[c] IN
  /\ pc[c] = "admit"
  /\ IF active /\ ~Performed(q.key) /\ q.allowed
       THEN /\ Goto(c, IF q.act = "charge" THEN "perform" ELSE "gate")
            /\ UNCHANGED <<actual, quoted>>
       ELSE Answer(c, AdmitReply(q))
  /\ UNCHANGED <<treasuryVars, daemonVars, worldVars, unpaid, boundVars>>

(* Step 3, and the head of each fork: one read of the balance, then the gates. *)
(* Only the generic path lets the act's ceiling lower the estimate; the others *)
(* deny a cost above it.                                                       *)
Estimate(q) ==
  IF q.act = "generic" /\ q.ceiling < q.estimate THEN q.ceiling ELSE q.estimate

BelowFloor(q) == q.act = "memory" /\ q.wseq < wseq_floor

OverBudget_Budget(q) == q.estimate > q.budget_sats  \* mutation: the ceiling is ignored

OverBudget(q) == Estimate(q) > q.budget_sats \/ Estimate(q) > q.ceiling

GateOutcome(q) ==
  IF ~q.valid THEN "UpstreamFailed"
  ELSE IF BelowFloor(q) THEN "Unspecified"
  ELSE IF OverBudget(q) THEN "DeniedOverBudget"
  ELSE IF Estimate(q) > balance THEN "DeniedInsufficientTreasury"
  ELSE "Passed"

Fork_PublishFirst(q) ==  \* mutation: publish before the reservation
  IF q.act = "fetch" THEN "lock" ELSE "perform"

Fork(q) ==
  CASE q.act = "publish" -> "reserve" [] q.act = "fetch" -> "lock" [] OTHER -> "perform"

Gate(c) ==
  LET q == req[c] IN
  /\ pc[c] = "gate"
  /\ IF GateOutcome(q) = "Passed"
       THEN Goto(c, Fork(q)) /\ UNCHANGED <<actual, quoted>>
       ELSE Answer(c, denied(q.key, GateOutcome(q)))
  /\ UNCHANGED <<treasuryVars, daemonVars, worldVars, unpaid, boundVars>>

-----------------------------------------------------------------------------
(* Publish: the reservation before the outward act.                            *)
ReservePublish(c) ==
  LET q == req[c] IN
  /\ pc[c] = "reserve"
  /\ debit_and_record(q.key, q.estimate, NoHash)
  /\ IF DebitOutcome(q.key, q.estimate) = "Debited"
       THEN Goto(c, "perform") /\ UNCHANGED <<actual, quoted>>
       ELSE Answer(c, DebitReceipt(q.key, q.estimate, NoCharge))
  /\ UNCHANGED <<daemonVars, worldVars, unpaid, boundVars>>

(* Fetch: take egress_debit_gate, then read the balance again under it.        *)
LockEgress(c) ==
  /\ pc[c] = "lock" /\ egress_owner = NoClient
  /\ egress_owner' = c
  /\ Goto(c, "regate")
  /\ UNCHANGED <<treasuryVars, actual, quoted, active, wseq_floor, halted,
                 worldVars, unpaid, boundVars>>

Release_Leak(c) == UNCHANGED egress_owner  \* mutation: the gate is never unlocked

Release(c) == egress_owner' = IF egress_owner = c THEN NoClient ELSE egress_owner

RegateEgress(c) ==
  /\ pc[c] = "regate"
  /\ IF req[c].estimate > balance
       THEN /\ Answer(c, denied(req[c].key, "DeniedInsufficientTreasury"))
            /\ Release(c)
       ELSE Goto(c, "perform") /\ UNCHANGED <<actual, quoted, egress_owner>>
  /\ UNCHANGED <<treasuryVars, active, wseq_floor, halted, worldVars, unpaid, boundVars>>

-----------------------------------------------------------------------------
(* Step 4: the await on the rail, the store or the settlement provider.  The   *)
(* effect happens in the world; the handler has not resumed yet.               *)
SpendOf(q) ==
  CASE q.act \in {"generic", "fetch"} -> 0..Estimate(q)  \* capped at the estimate
    [] q.act \in {"memory", "publish"} -> {q.estimate}
    [] q.act = "charge" -> {0}

(* The store client answers a token it has committed in this run without       *)
(* writing again, whatever the content is now.  A write that reached the store *)
(* and whose answer was lost left no token.                                    *)
AlreadyCommitted(q) == q.act = "memory" /\ q.key \in tokens

Effect(q) ==
  /\ performed' = [performed EXCEPT ![q.key] = @ + 1]
  /\ head' = IF q.act = "memory" THEN q ELSE head

Perform(c) ==
  LET q == req[c] IN
  /\ pc[c] = "perform" /\ q.act # "charge"
  /\ \E cost \in SpendOf(q) : actual' = [actual EXCEPT ![c] = cost]
  /\ IF AlreadyCommitted(q)
       THEN UNCHANGED <<performed, head, tokens>>
       ELSE /\ Effect(q)
            /\ tokens' = IF q.act = "memory" THEN tokens \cup {q.key} ELSE tokens
  /\ Goto(c, "record")
  /\ UNCHANGED <<treasuryVars, quoted, daemonVars, quotes, unpaid, boundVars>>

(* The rail asked for is the one boot has wired, or the charge fails below.    *)
Issue(c, id) ==
  /\ pc[c] = "perform" /\ req[c].act = "charge" /\ req[c].valid
  /\ id \in Charges \ quotes
  /\ quotes' = quotes \cup {id}
  /\ quoted' = [quoted EXCEPT ![c] = id]
  /\ Goto(c, "record")
  /\ UNCHANGED <<treasuryVars, actual, daemonVars, performed, head, tokens,
                 unpaid, boundVars>>

(* The upstream failed, or the charge is for a rail that is not wired: nothing *)
(* happened, or it did and the answer was lost.  A failed publish keeps its    *)
(* reservation.                                                                *)
PerformFails(c) ==
  LET q == req[c] IN
  /\ pc[c] = "perform"
  /\ Answer(c, IF q.act = "publish"
                 THEN receipt(q.key, "UpstreamFailed")
                 ELSE denied(q.key, "UpstreamFailed"))
  /\ Release(c)
  /\ \/ UNCHANGED <<performed, head>>
     \/ q.act # "charge" /\ ~AlreadyCommitted(q) /\ Effect(q)
  /\ UNCHANGED <<treasuryVars, active, wseq_floor, halted, tokens, quotes,
                 unpaid, boundVars>>

-----------------------------------------------------------------------------
(* Step 5: the handler resumes; the debit and the receipt are one transaction. *)
Record(c) ==
  LET q == req[c] IN
  /\ pc[c] = "record" /\ q.act \in {"generic", "memory", "fetch"}
  /\ debit_and_record(q.key, actual[c], IF q.act = "memory" THEN q.request_hash ELSE NoHash)
  /\ Answer(c, DebitReceipt(q.key, actual[c], NoCharge))
  /\ unpaid' = IF DebitOutcome(q.key, actual[c]) = "Insufficient"
                 THEN unpaid \cup {q.key} ELSE unpaid
  /\ wseq_floor' =
       IF q.act = "memory" /\ DebitOutcome(q.key, actual[c]) = "Debited"
            /\ wseq_floor < q.wseq + 1
         THEN q.wseq + 1 ELSE wseq_floor
  /\ Release(c)
  /\ UNCHANGED <<active, halted, worldVars, boundVars>>

RecordPublish(c) ==
  LET q == req[c] IN
  /\ pc[c] = "record" /\ q.act = "publish"
  /\ Answer(c, receipt(q.key, "AuthorizedAndPerformed"))
  /\ UNCHANGED <<treasuryVars, daemonVars, worldVars, unpaid, boundVars>>

(* Boot wires one rail; the poll index tags the charge with it.                *)
RecordCharge(c) ==
  LET q == req[c] IN
  /\ pc[c] = "record" /\ q.act = "charge"
  /\ record_charge_atomic(q.key, quoted[c], "Lightning", q.request_hash)
  /\ Answer(c, DebitReceipt(q.key, 0, quoted[c]))
  /\ UNCHANGED <<daemonVars, worldVars, unpaid, boundVars>>

(* The client goes away at an await: the handler is dropped where it stands    *)
(* and its locks with it.                                                      *)
Cancel(c) ==
  /\ pc[c] \in {"lock", "perform", "record"} /\ cancels < MaxCancels
  /\ cancels' = cancels + 1
  /\ Leave(c)
  /\ Release(c)
  /\ UNCHANGED <<treasuryVars, reply, active, wseq_floor, halted, worldVars, unpaid,
                 sent, arrivals, boots>>

-----------------------------------------------------------------------------
(* The daemon around the handlers.                                             *)

(* A meter tick: rent, and the halt when it cannot be paid or when what is     *)
(* left is under the floor.                                                    *)
Tick(burn) ==
  /\ ~halted
  /\ debit_metered(burn)
  /\ halted' = \/ MeteredOutcome(burn) = "Insufficient"
               \/ HaltFloor > 0 /\ balance' < HaltFloor
  /\ UNCHANGED <<requestVars, active, egress_owner, wseq_floor, worldVars, unpaid, boundVars>>

(* The fence's verdict changes: another node has a higher term, or the lease   *)
(* is stale for want of a heartbeat, or a fresh one names this node again.     *)
LeaseVerdict ==
  /\ active' = ~active
  /\ UNCHANGED <<treasuryVars, requestVars, egress_owner, wseq_floor, halted,
                 worldVars, unpaid, boundVars>>

RecordedWseqs == {q.wseq : q \in {p \in Requests : p.act = "memory" /\ Performed(p.key)}}

SeededFloors_Fresh == {1}  \* mutation: the floor is not seeded from the ledger

SeededFloors ==
  {n \in {1} \cup {w + 1 : w \in RecordedWseqs} : \A w \in RecordedWseqs : w < n}

(* The daemon dies and boots again on the same store: handlers and locks are   *)
(* gone, the floor is seeded from the ledger, the genome may replay.           *)
Crash ==
  /\ boots < MaxBoots
  /\ boots' = boots + 1
  /\ Open
  /\ pc' = [c \in Clients |-> "idle"]
  /\ req' = [c \in Clients |-> NoRequest]
  /\ actual' = [c \in Clients |-> 0]
  /\ quoted' = [c \in Clients |-> NoCharge]
  /\ egress_owner' = NoClient
  /\ tokens' = {}
  /\ wseq_floor' \in SeededFloors
  /\ halted' = FALSE
  /\ sent' = 0
  /\ UNCHANGED <<reply, active, performed, head, quotes, unpaid, arrivals, cancels>>

Handler(c) ==
  \/ Admit(c) \/ Gate(c)
  \/ ReservePublish(c) \/ LockEgress(c) \/ RegateEgress(c)
  \/ Perform(c) \/ (\E id \in Charges : Issue(c, id)) \/ PerformFails(c)
  \/ Record(c) \/ RecordPublish(c) \/ RecordCharge(c)

Next ==
  \/ \E c \in Clients : \E q \in Requests : Arrive(c, q)
  \/ \E c \in Clients : Handler(c)
  \/ \E c \in Clients : Cancel(c)
  \/ \E burn \in Burns : Tick(burn)
  \/ LeaseVerdict
  \/ Crash

Spec == Init /\ [][Next]_vars
-----------------------------------------------------------------------------
(* The keys used for one act only.                                             *)
KeysOf(act) == {k \in Keys : \A q \in Requests : q.key = k => q.act = act}

(* At most once: whatever is raced, retried, cancelled, failed or replayed     *)
(* after a crash, nothing is published twice under a key (authorize_actuate).  *)
PublishedAtMostOnce == \A k \in KeysOf("publish") : performed[k] <= 1

(* Record then publish: what is out was paid for first, so that no crash or    *)
(* cancellation leaves a public note without its debit (authorize_actuate).    *)
PublishPaidFirst == \A k \in KeysOf("publish") : performed[k] > 0 => Performed(k)

(* Every receipt that says an act was done, the winner's and each duplicate's, *)
(* gives the numbers and the charge of the one ledger row of its key, now and  *)
(* for as long as the client keeps it.                                         *)
AnswersAgree ==
  \A c \in Clients :
    reply[c] # NoReply /\ reply[c].outcome \in {"AuthorizedAndPerformed", "DuplicateIgnored"}
      => /\ Performed(reply[c].key)
         /\ reply[c] = receipt(reply[c].key, reply[c].outcome)

(* Nothing is performed under a key that is on the ledger.                     *)
ReplayStep == \A k \in Keys : Performed(k) => performed'[k] = performed[k]

(* A row is only ever added by a handler whose own request allows its cost: it *)
(* is within that request's budget and ceiling, and the destination is on the  *)
(* allowlist (steps 2 and 3 and the forks; the debit comes awaits later).      *)
WithinAuthority ==
  [][\A k \in Keys : ~Performed(k) /\ Performed(k)' =>
       \E c \in Clients :
         /\ req[c] # NoRequest /\ req[c].key = k
         /\ req[c].allowed /\ req[c].valid
         /\ ledger'[k].cost_sats <= req[c].budget_sats
         /\ ledger'[k].cost_sats <= req[c].ceiling]_vars

(* No payable charge is lost to the poller: the charge a client was told of is *)
(* in the poll index under the receipt's own id (record_charge_atomic).        *)
AnsweredChargeIsPolled ==
  \A c \in Clients :
    reply[c] # NoReply /\ reply[c].proof \in Charges => issued_charges[reply[c].proof] # NoRow

(* A payment settles one key: no charge id is on two rows of the ledger,       *)
(* although handlers hold their ids while they wait for the transaction        *)
(* (authorize_issue_charge).                                                   *)
OneKeyPerCharge ==
  \A j \in Keys, k \in Keys :
    Performed(j) /\ Performed(k) /\ ledger[j].proof \in Charges
      /\ ledger[j].proof = ledger[k].proof => j = k

(* A recorded write is never rolled back: the store serves it or a later one,  *)
(* even when a write that was dropped before its debit is sent again (R2-7).   *)
RecordedWriteServed ==
  \A w \in RecordedWseqs : head # NoRequest /\ head.wseq >= w

(* Nobody is left waiting for ever: egress_debit_gate is held by a handler     *)
(* that is between its balance read and its debit and will end, never by one   *)
(* that was denied, failed, cancelled or lost to a crash.                      *)
GateHeldInside ==
  egress_owner # NoClient =>
    /\ pc[egress_owner] \in {"regate", "perform", "record"}
    /\ req[egress_owner].act = "fetch"

(* What the comments at the refused debits of step 5, of the memory write and  *)
(* of the fetch say: a debit cannot be refused after its act.  The estimate    *)
(* was checked against a balance that other debits lowered during the await;   *)
(* a fetch is safe from other fetches only.                                    *)
PerformedIsPaid == unpaid = {}

(* What the step 0 comment says: a node that does not hold the lease debits    *)
(* nothing.  The fence is read once, before the await on the rail.             *)
FencedNeverDebits == [][~active => balance' >= balance]_vars

(* What the comments at the request hash and in authorize_issue_charge say: a  *)
(* charge key asked for again with other terms is refused.  Step 1 answers it  *)
(* with the first charge.                                                      *)
DivergentChargeRefused ==
  [][\A c \in Clients :
       pc[c] = "admit" /\ req[c].act = "charge" /\ Performed(req[c].key)
         /\ HashDiverges(req[c], ledger[req[c].key])
       => reply'[c] # receipt(req[c].key, "DuplicateIgnored")]_vars

(* What the R2-4 comment says: a key reused for other content is refused, so   *)
(* the row of a write describes what the store serves under that key.  Before  *)
(* the row exists only the store client's token knows the key, and it accepts  *)
(* the other content without writing it.                                       *)
StoreMatchesLedger ==
  head # NoRequest /\ Performed(head.key) => ledger[head.key].request_hash = head.request_hash
=============================================================================
