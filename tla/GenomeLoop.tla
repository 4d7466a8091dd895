----------------------------- MODULE GenomeLoop -----------------------------
(* The loops of the genome that serve its inbox                                *)
(* (crates/kirby-genome/src/capable.rs): oracle_loop (direct messages, charge  *)
(* - settle - answer), earn_loop (job requests, charge) and the direct         *)
(* messages of capable_loop (think - reply), over the daemon's inbound queue   *)
(* and its persistent journal of idempotency keys.  A tick is a series of      *)
(* calls, each of which may be lost before or after the daemon performs it.    *)
EXTENDS Inbox

CONSTANTS
  Requests,      \* inbound requests, one customer each
  Mission,       \* what a tick of capable_loop without a message thinks about
  Workloads,     \* the workloads this genome may run
  Texts,         \* what customers may have sent
  Quotes,        \* the sats a plan may quote
  MinCharge,     \* ORACLE_MIN_CHARGE_SATS
  PendingTtl,    \* ORACLE_PENDING_TTL_TICKS
  MaxRetries,    \* MAX_THINK_TRANSIENT_RETRIES
  MaxReads,      \* dm_max_reads
  NoEvent,
  MaxIdle,       \* bound: the last seq an idle tick may commit
  MaxFaults      \* bound: calls without an answer, and reboots of the daemon

ASSUME GenomeAssumption ==
  /\ Workloads \subseteq {"oracle", "earn", "capable"}
  /\ Mission \notin Requests
  /\ NoEvent \notin [inbox_seq : Nat, kind : {"dm", "job", "settled"},
                     about : Requests, sats : Nat]
  /\ Texts \subseteq {"price", "status", "unsupported"}
  /\ Quotes \subseteq Nat \ {0}
  /\ {MinCharge, PendingTtl, MaxRetries, MaxReads, MaxIdle, MaxFaults} \subseteq Nat

VARIABLES
  workload, provider,  \* the workload, and whether a settlement rail is wired
  \* The genome, all of it in memory.
  pc, ev,              \* the call the tick is at, and the event it serves
  plan,                \* the words the THINK came back with
  committed, ack_seq, poison_retries, reads_used,
  pending,             \* the charges it waits on
  \* What survives a reboot: relay, journal, treasury.
  text,                \* Requests -> the message a relay stores from its customer
  thoughts,            \* the journal's completions, by seq
  sent,                \* the journal's direct messages, by seq
  charges,             \* Requests -> the amount of its ChargeIssued, 0 if none
  credited,            \* Requests -> the sats its settlement credited
  checkpoint,          \* the seq capable_loop submitted last
  \* History and bounds.
  life, retired,       \* the boot, and the charges it waits on no more
  faults

genomeVars == <<pc, ev, plan, committed, ack_seq, poison_retries, reads_used, pending>>
daemonVars == <<text, thoughts, sent, charges, credited, checkpoint>>
vars == <<workload, provider, inboxVars, genomeVars, daemonVars, life, retired, faults>>

Sends == {"books", "invoice", "answer", "reply"}
NoPlan == [seq |-> 0, about |-> Mission, action |-> "other", sats |-> 0]

(* The tick's sequence number: it keys every call of the tick.                 *)
seq == committed + 1

Want ==
  CASE workload = "oracle" -> {"dm", "settled"}
    [] workload = "capable" -> {"dm"}
    [] workload = "earn" -> {"job"}

TypeOK ==
  /\ workload \in Workloads /\ provider \in BOOLEAN
  /\ pc \in {"idle", "think", "charge", "dead"} \cup Sends
  /\ ev = NoEvent \/ (ev.about \in Requests /\ ev.inbox_seq < next_seq)
  /\ pc \in {"think", "charge"} \cup Sends => ev # NoEvent /\ ev.inbox_seq > ack_seq
  /\ \A p \in pending : p.about \in Requests /\ p.issued_seq <= committed
  /\ \A p, q \in pending : p.about = q.about => p = q
  /\ \A m, n \in sent : m.seq = n.seq => m = n
  /\ \A t, u \in thoughts : t.seq = u.seq => t = u
  /\ Cardinality(inner) <= QueueCap /\ ack_seq < next_seq
  /\ poison_retries < MaxRetries /\ reads_used <= MaxReads

Init ==
  /\ workload \in Workloads /\ provider \in BOOLEAN
  /\ InboxInit
  /\ pc = "idle" /\ ev = NoEvent /\ plan = NoPlan
  /\ committed = 0 /\ ack_seq = 0 /\ poison_retries = 0 /\ reads_used = 0
  /\ pending = {}
  /\ text \in [Requests -> Texts]
  /\ workload # "oracle" => \A r \in Requests : text[r] = "price"  \* it alone parses them
  /\ thoughts = {} /\ sent = {}
  /\ charges = [r \in Requests |-> 0]
  /\ credited = [r \in Requests |-> 0]
  /\ checkpoint = 0
  /\ life = 1 /\ retired = {} /\ faults = 0

-----------------------------------------------------------------------------
(* The relays and the settlement poller fill the queue.                        *)

(* The live subscription and the backfill sweep feed the same wall, wrap by    *)
(* wrap, in any order; a job request comes by the live subscription alone.     *)
screen_and_enqueue(r) ==
  /\ push_typed_once(InboxEvent(IF workload = "earn" THEN "job" ELSE "dm", r, 0))
  /\ UNCHANGED <<workload, provider, genomeVars, daemonVars, life, retired, faults>>

(* The producer gets the lock of the queue.                                    *)
Delivered(e) ==
  /\ Enqueue(e)
  /\ UNCHANGED <<workload, provider, genomeVars, daemonVars, life, retired, faults>>

Invoiced(r) == workload = "earn" \/ \E m \in sent : m.what = "invoice" /\ m.re = r /\ m.ok

(* The customer pays, in part or in full, and settle_inner notifies the genome. *)
Settle(r, sats) ==
  /\ sats > 0 /\ credited[r] = 0 /\ Invoiced(r)
  /\ credited' = [credited EXCEPT ![r] = sats]
  /\ push_typed(InboxEvent("settled", r, sats))
  /\ UNCHANGED <<workload, provider, genomeVars, seen, text, thoughts, sent,
                 charges, checkpoint, life, retired, faults>>

-----------------------------------------------------------------------------
(* A call gets no answer, or the machine goes down.                            *)
Fault == faults < MaxFaults /\ faults' = faults + 1

(* How a tick ends.                                                            *)
tick_commits_seq(transient) == ~transient

EndTick(transient) ==
  /\ pc' = "idle" /\ plan' = NoPlan
  /\ committed' = IF tick_commits_seq(transient) THEN seq ELSE committed

(* Lived: the event is consumed.                                               *)
Consume(e) ==
  /\ EndTick(FALSE)
  /\ ack_seq' = e.inbox_seq
  /\ ev' = NoEvent
  /\ reads_used' = 0

(* Transient: the event is served again, at the same seq.  capable_loop holds  *)
(* on to its conversation, the other loops poll anew.                          *)
Transient ==
  /\ EndTick(TRUE)
  /\ ev' = IF workload = "capable" THEN ev ELSE NoEvent
  /\ UNCHANGED <<ack_seq, reads_used>>

(* oracle_tick_inner ages out its waiting-set first.                           *)
Waiting == {p \in pending : seq <= p.issued_seq + PendingTtl}

Aged == {p.about : p \in pending \ Waiting}

think_transient_or_consume_Never == Transient /\ poison_retries' = poison_retries
  \* mutation: a poison event is retried for ever

think_transient_or_consume ==
  IF workload # "capable" /\ poison_retries + 1 >= MaxRetries
    THEN Consume(ev) /\ poison_retries' = 0
    ELSE /\ Transient
         /\ poison_retries' = IF workload = "capable" THEN 0 ELSE poison_retries + 1

-----------------------------------------------------------------------------
(* The start of a tick: poll, oldest first.  An empty inbox, or a poll that    *)
(* fails, is an idle tick; capable_loop then thinks about its mission and may  *)
(* record a write.                                                             *)
IdleTick ==
  /\ pc = "idle" /\ ev = NoEvent /\ committed < MaxIdle
  /\ \/ Drainable(ack_seq, Want) = {} /\ Prune(ack_seq) /\ UNCHANGED faults
     \/ Fault /\ UNCHANGED inboxVars
  /\ pending' = Waiting /\ retired' = retired \cup Aged
  /\ EndTick(FALSE)
  /\ IF workload = "capable"
       THEN /\ thoughts' = IF \E t \in thoughts : t.seq = seq THEN thoughts
                           ELSE thoughts \cup {[NoPlan EXCEPT !.seq = seq]}
            /\ checkpoint' \in {checkpoint, seq}
       ELSE UNCHANGED <<thoughts, checkpoint>>
  /\ UNCHANGED <<workload, provider, ev, ack_seq, poison_retries, reads_used,
                 text, sent, charges, credited, life>>

(* What the tick does with an event: a settlement that matches no charge or    *)
(* falls short of the quote ends it, as does an unsupported query.             *)
Matches(e) == {p \in Waiting : p.about = e.about}

Unanswerable_Unpaid(e) ==  \* mutation: the underpayment gate is gone
  e.kind = "settled" /\ Matches(e) = {}

Unanswerable(e) ==
  e.kind = "settled" /\ ~ \E p \in Matches(e) : e.sats >= p.sats

Unsupported(e) == workload = "oracle" /\ e.kind = "dm" /\ text[e.about] = "unsupported"

FirstCall(e) ==
  CASE e.kind = "settled" -> "answer"
    [] e.kind = "dm" /\ workload = "oracle" /\ text[e.about] = "status" -> "books"
    [] OTHER -> "think"

Take(e) ==
  /\ pc = "idle"
  /\ IF ev # NoEvent
       THEN e = ev /\ UNCHANGED inboxVars
       ELSE /\ Drainable(ack_seq, Want) # {} /\ Prune(ack_seq)
            /\ e = Oldest(Drainable(ack_seq, Want))
  /\ IF Unanswerable(e) \/ Unsupported(e)
       THEN /\ Consume(e)
            /\ pending' = Waiting \ Matches(e)
            /\ retired' = retired \cup Aged \cup {p.about : p \in Matches(e)}
       ELSE /\ pc' = FirstCall(e) /\ ev' = e
            /\ pending' = Waiting
            /\ retired' = retired \cup Aged
            /\ UNCHANGED <<plan, committed, ack_seq, reads_used>>
  /\ UNCHANGED <<workload, provider, poison_retries, daemonVars, life, faults>>

-----------------------------------------------------------------------------
(* THINK, the life-gating call.  Its key is the tick's seq: the journal gives  *)
(* a repeated key the words it recorded under it.                              *)
Plans ==
  IF workload = "capable"
    THEN [action : {"reply", "read_more", "other"}, sats : {0}]
    ELSE [action : {"quote"}, sats : Quotes]

Completions ==
  IF \E t \in thoughts : t.seq = seq
    THEN {t \in thoughts : t.seq = seq}
    ELSE {[seq |-> seq, about |-> ev.about, action |-> p.action, sats |-> p.sats] : p \in Plans}

Charged(t) == IF workload = "oracle" /\ t.sats < MinCharge THEN MinCharge ELSE t.sats

FollowPlan(t) ==
  \/ /\ workload # "capable"
     /\ pc' = "charge" /\ plan' = [t EXCEPT !.sats = Charged(t)]
     /\ UNCHANGED <<ev, committed, ack_seq, reads_used>>
  \/ /\ workload = "capable" /\ t.action = "reply"
     /\ pc' = "reply" /\ plan' = t
     /\ UNCHANGED <<ev, committed, ack_seq, reads_used>>
  \/ /\ workload = "capable" /\ t.action = "read_more" /\ reads_used < MaxReads
     /\ EndTick(FALSE)
     /\ reads_used' = reads_used + 1
     /\ UNCHANGED <<ev, ack_seq>>
  \/ /\ workload = "capable" /\ t.action # "reply"
     /\ t.action = "read_more" => reads_used >= MaxReads
     /\ Consume(ev)

ThinkPerformed ==
  /\ pc = "think"
  /\ \E t \in Completions : thoughts' = thoughts \cup {t} /\ FollowPlan(t)
  /\ poison_retries' = 0
  /\ UNCHANGED <<workload, provider, inboxVars, pending, text, sent, charges,
                 credited, checkpoint, life, retired, faults>>

(* No answer, before or after the daemon thought; or an upstream failure.      *)
ThinkTransient ==
  /\ pc = "think"
  /\ \/ UNCHANGED <<thoughts, faults>>
     \/ /\ Fault
        /\ \E t \in Completions : thoughts' = thoughts \cup {t}
  /\ think_transient_or_consume
  /\ UNCHANGED <<workload, provider, inboxVars, pending, text, sent, charges,
                 credited, checkpoint, life, retired>>

(* A THINK the treasury cannot pay for is death.                               *)
ThinkBroke ==
  /\ pc = "think"
  /\ pc' = "dead" /\ ev' = NoEvent
  /\ UNCHANGED <<workload, provider, inboxVars, plan, committed, ack_seq,
                 poison_retries, reads_used, pending, daemonVars, life, retired, faults>>

-----------------------------------------------------------------------------
(* IssueCharge, under a key derived from the request itself: the first charge  *)
(* issued for a request is the one every later call for it gets.               *)
Issue ==
  charges' = [charges EXCEPT ![ev.about] =
                IF charges[ev.about] = 0 THEN plan.sats ELSE charges[ev.about]]

Chargeable == charges[ev.about] > 0 \/ provider

(* No charge (no rail, or the daemon refused): consumed, not invoiced.         *)
ChargeRefused ==
  /\ pc = "charge" /\ charges[ev.about] = 0
  /\ Consume(ev)
  /\ UNCHANGED <<workload, provider, inboxVars, poison_retries, pending, daemonVars,
                 life, retired, faults>>

(* A charge of another amount than the one just quoted is not invoiced.        *)
ChargeIssued ==
  /\ pc = "charge" /\ Chargeable
  /\ Issue
  /\ IF workload = "oracle" /\ charges'[ev.about] = plan.sats
       THEN /\ pc' = "invoice"
            /\ UNCHANGED <<ev, plan, committed, ack_seq, reads_used>>
       ELSE Consume(ev)
  /\ UNCHANGED <<workload, provider, inboxVars, poison_retries, pending, text,
                 thoughts, sent, credited, checkpoint, life, retired, faults>>

ChargeLost ==
  /\ pc = "charge" /\ Fault
  /\ (Chargeable /\ Issue) \/ UNCHANGED charges
  /\ Transient
  /\ UNCHANGED <<workload, provider, inboxVars, poison_retries, pending, text,
                 thoughts, sent, credited, checkpoint, life, retired>>

-----------------------------------------------------------------------------
(* execute_dm_reply, the one door out.  The daemon records the key before it   *)
(* publishes; a key it has recorded is answered as sent, whatever became of    *)
(* the first message.                                                          *)
Recorded == \E m \in sent : m.seq = seq

Message(ok) ==
  [seq |-> seq, life |-> life, what |-> pc, to |-> ev.about,
   re |-> IF pc = "reply" THEN plan.about ELSE ev.about, ok |-> ok]

(* The invoice is out, or was skipped: the charge is awaited.  The answer is   *)
(* out, or failed for good: it is awaited no more.                             *)
Settled ==
  LET others == {p \in pending : p.about # ev.about} IN
  CASE pc = "invoice" -> pending' = others \cup
         {[about |-> ev.about, sats |-> plan.sats, issued_seq |-> seq]} /\ UNCHANGED retired
    [] pc = "answer" -> pending' = others /\ retired' = retired \cup {ev.about}
    [] OTHER -> UNCHANGED <<pending, retired>>

ReplyDone(recorded_write) ==
  /\ Settled
  /\ Consume(ev)
  /\ checkpoint' = IF workload = "capable" /\ recorded_write THEN seq ELSE checkpoint

ReplySent ==
  /\ pc \in Sends
  /\ \/ Recorded /\ UNCHANGED sent /\ ReplyDone(TRUE)
     \/ \E ok \in BOOLEAN : ~Recorded /\ sent' = sent \cup {Message(ok)} /\ ReplyDone(ok)
     \/ ~Recorded /\ UNCHANGED sent /\ ReplyDone(FALSE)
  /\ UNCHANGED <<workload, provider, inboxVars, poison_retries, text, thoughts,
                 charges, credited, life, faults>>

ReplyLost ==
  /\ pc \in Sends /\ Fault
  /\ \/ UNCHANGED sent
     \/ \E ok \in BOOLEAN : ~Recorded /\ sent' = sent \cup {Message(ok)}
  /\ Transient
  /\ UNCHANGED <<workload, provider, inboxVars, poison_retries, pending, text,
                 thoughts, charges, credited, checkpoint, life, retired>>

-----------------------------------------------------------------------------
(* Daemon and genome come up again: queue, cursor and waiting-set are empty,   *)
(* the stored gift wraps are fetched again, and only capable_loop restores its *)
(* seq, when the boot hands it the checkpoint.  It submits what it restored    *)
(* once up front, which may fail.                                              *)
Reboot ==
  /\ Fault
  /\ life' = life + 1
  /\ inner' = {} /\ numbered' = {} /\ next_seq' = 1 /\ seen' = {} /\ overflowed' = FALSE
  /\ pc' = "idle" /\ ev' = NoEvent /\ plan' = NoPlan
  /\ committed' \in {0} \cup (IF workload = "capable" THEN {checkpoint} ELSE {})
  /\ ack_seq' = 0 /\ poison_retries' = 0 /\ reads_used' = 0
  /\ pending' = {} /\ retired' = {}
  /\ checkpoint' \in {checkpoint} \cup (IF workload = "capable" THEN {committed'} ELSE {})
  /\ UNCHANGED <<workload, provider, text, thoughts, sent, charges, credited>>

Tick ==
  \/ IdleTick
  \/ \E e \in inner \cup ({ev} \ {NoEvent}) : Take(e)
  \/ ThinkPerformed \/ ThinkTransient \/ ThinkBroke
  \/ ChargeRefused \/ ChargeIssued \/ ChargeLost
  \/ ReplySent \/ ReplyLost

Next ==
  \/ \E r \in Requests : screen_and_enqueue(r)
  \/ \E r \in Requests, short \in {0, 1} : Settle(r, charges[r] - short)
  \/ \E e \in numbered : Delivered(e)
  \/ Tick
  \/ Reboot

(* The loop never stops ticking, whatever its calls come to.                   *)
Spec == Init /\ [][Next]_vars /\ WF_vars(Tick)

-----------------------------------------------------------------------------
Answers(r) == {m \in sent : m.what = "answer" /\ m.re = r}

(* Charge, settle, answer: an answer is only ever published about a request    *)
(* whose settlement covers the charge, to the customer who asked, across lost  *)
(* calls, overflows and reboots; and once, when producers do not race and no   *)
(* second call is lost after a first.                                          *)
AnswersPaidOnce ==
  \A r \in Requests, m \in sent :
    m \in Answers(r) =>
      /\ m.to = r /\ charges[r] > 0 /\ credited[r] >= charges[r]
      /\ ~Racing /\ faults <= 1 => Answers(r) = {m}

(* What oracle_tick_inner says of its answers: the retry of a lost send reuses *)
(* the seq, a settlement is answered exactly once.                             *)
AnswersOnce == \A r \in Requests : \A m, n \in Answers(r) : m = n

(* One cursor spans both kinds of event: it never moves past an event in the   *)
(* queue that the genome has not served, as long as producers do not race.     *)
NoEventSkipped ==
  [][ack_seq' > ack_seq =>
       \A e \in Drainable(ack_seq, Want) : e.inbox_seq >= ack_seq']_vars

(* A customer who was sent an invoice can be answered when he pays: until the  *)
(* charge is answered, found short or aged out, the genome waits for it or is  *)
(* about to.  Only a full queue, or a reboot, breaks the promise.              *)
InvoiceIsBacked ==
  ~overflowed =>
    \A m \in sent :
      m.what = "invoice" /\ m.ok /\ m.life = life =>
        \/ m.re \in {p.about : p \in pending} \cup retired
        \/ /\ m.seq = seq
           /\ \E e \in inner : e.about = m.re /\ e.inbox_seq > ack_seq

(* The loops that sell answers come to the end of their inbox again and again, *)
(* or die: not even a message whose THINK always fails holds up the others.    *)
InboxDrains ==
  workload # "capable" => []<>(Drainable(ack_seq, Want) = {} \/ pc = "dead")

(* What capable_loop says of its restored seq, the next think takes a new seq: *)
(* a reply is the plan of a THINK about the message it answers.                *)
ReplyFromItsThink == \A m \in sent : m.re = m.to
=============================================================================
