-------------------------------- MODULE Inbox --------------------------------
(* The per-genome inbound queue of the daemon (crates/kirby-node/src/nerve.rs  *)
(* InboundQueue): bounded, oldest dropped first, numbered by a counter that    *)
(* never goes back, direct messages admitted once, and drained by the cursor   *)
(* its reader confirms.  All of it is the daemon's memory.                     *)
(*                                                                             *)
(* The counter is taken before the queue's lock: a producer holds its number   *)
(* for a moment before its event is in the queue.  The queue is a set, ordered *)
(* by the numbers.                                                             *)
EXTENDS Naturals, FiniteSets

CONSTANTS
  QueueCap,   \* INBOUND_QUEUE_CAP
  Racing      \* whether two producers may hold their numbers at a time

ASSUME InboxAssumption == QueueCap \in Nat \ {0} /\ Racing \in BOOLEAN

VARIABLES
  inner,        \* the queued events
  numbered,     \* the events whose producer waits for the queue
  next_seq,     \* the inbox_seq of the next event
  seen,         \* the gift wraps enqueued before (far fewer than INBOUND_DEDUP_CAP)
  overflowed    \* history: an event was dropped by this queue

inboxVars == <<inner, numbered, next_seq, seen, overflowed>>

InboxInit ==
  /\ inner = {} /\ numbered = {}
  /\ next_seq = 1
  /\ seen = {}
  /\ overflowed = FALSE

InboxEvent(kind, about, sats) ==
  [inbox_seq |-> next_seq, kind |-> kind, about |-> about, sats |-> sats]

push_typed(event) ==
  /\ Racing \/ numbered = {}
  /\ numbered' = numbered \cup {event}
  /\ next_seq' = next_seq + 1
  /\ UNCHANGED <<inner, overflowed>>

push_typed_once(event) ==
  /\ event.about \notin seen
  /\ seen' = seen \cup {event.about}
  /\ push_typed(event)

Oldest_Newest(events) ==  \* mutation: the newest event is served first
  CHOOSE e \in events : \A f \in events : f.inbox_seq <= e.inbox_seq

Oldest(events) ==
  CHOOSE e \in events : \A f \in events : e.inbox_seq <= f.inbox_seq

Enqueue(event) ==
  LET full == Cardinality(inner) >= QueueCap IN
  /\ event \in numbered /\ numbered' = numbered \ {event}
  /\ inner' = (IF full THEN inner \ {Oldest(inner)} ELSE inner) \cup {event}
  /\ overflowed' = (overflowed \/ full)
  /\ UNCHANGED <<next_seq, seen>>

After(ack_seq) == {e \in inner : e.inbox_seq > ack_seq}

Drainable(ack_seq, want) == {e \in After(ack_seq) : e.kind \in want}

Prune(ack_seq) ==
  /\ inner' = After(ack_seq)
  /\ UNCHANGED <<numbered, next_seq, seen, overflowed>>
=============================================================================
